---------------------------- MODULE Spec2Model ----------------------------
(***************************************************************************)
(* Model of the README generator: App.handleAnalyze / handleReset, the     *)
(* GitHubApiService (analyzeRepository, parseGitHubUrl, getFileContent,    *)
(* detectTechnologies) and the ReadmeGenerator (generateReadme and its     *)
(* section builders), followed by the placeholder replacement.             *)
(*                                                                         *)
(* Text is modelled by TLA+ strings, character by character: includes,     *)
(* endsWith, toLowerCase, trim and the global regex replacements are       *)
(* computed on the characters.  The long static prose of the README        *)
(* templates is shortened to its headings and command lines; nothing that  *)
(* is interpolated (metadata fields, placeholders, labels) is shortened.   *)
(*                                                                         *)
(* An action is one JavaScript task: a handler or the continuation that    *)
(* runs when an awaited fetch settles, up to the next await that waits on  *)
(* the network (promise continuations that are already runnable run in     *)
(* the same task, as microtasks do).                                       *)
(***************************************************************************)
EXTENDS Integers, Sequences, FiniteSets, TLC

(***************************************************************************)
(* Bounds of the model.                                                    *)
(***************************************************************************)
\* Largest number of entries of a root listing.
MaxFiles == 2
\* Largest number of languages of a language map given to generateTechStack
\* when it is called on its own.
MaxLanguages == 2

\* repository sizes are up to 4000 * 1024^MaxSizeShift KB
MaxSizeShift == 2

(***************************************************************************)
(* Optional values: null / undefined is <<>>, a value v is <<v>>.          *)
(***************************************************************************)
Null == <<>>
Some(v) == <<v>>
IsNull(o) == o = <<>>
Val(o) == o[1]

(***************************************************************************)
(* JavaScript string functions.                                            *)
(***************************************************************************)
\* s.startsWith(pat, i - 1), positions counted from 1
StartsWithAt(s, pat, i) ==
    /\ i >= 1
    /\ i + Len(pat) - 1 <= Len(s)
    /\ SubSeq(s, i, i + Len(pat) - 1) = pat

\* s.includes(pat)
Includes(s, pat) ==
    LET m == Len(pat) - 1
    IN  \E k \in 1..(Len(s) - m) : SubSeq(s, k, k + m) = pat

\* s.endsWith(suf)
EndsWith(s, suf) == StartsWithAt(s, suf, Len(s) - Len(suf) + 1)

\* position of the first occurrence of pat in s at or after i, 0 if none
IndexFrom(s, pat, i) ==
    LET hits == {k \in i..(Len(s) - Len(pat) + 1) : StartsWithAt(s, pat, k)}
    IN  IF hits = {} THEN 0 ELSE CHOOSE k \in hits : \A m \in hits : k <= m

\* s.replace(pat, rep) with a string pattern: the first occurrence only
ReplaceFirstOnly(s, pat, rep) ==
    LET i == IndexFrom(s, pat, 1)
    IN  IF i = 0 THEN s
        ELSE SubSeq(s, 1, i - 1) \o rep \o SubSeq(s, i + Len(pat), Len(s))

\* the positions at which pat occurs in s
Occurrences(s, pat) ==
    LET m == Len(pat) - 1
    IN  {k \in 1..(Len(s) - m) : SubSeq(s, k, k + m) = pat}

RECURSIVE ReplaceFrom(_, _, _, _, _)
\* s from position i on, with the matches replaced: a match is the first
\* occurrence (of hits) that starts at or after the end of the match before
ReplaceFrom(s, pat, rep, i, hits) ==
    LET rest == {k \in hits : k >= i}
    IN  IF rest = {}
        THEN SubSeq(s, i, Len(s))
        ELSE LET j == CHOOSE k \in rest : \A m \in rest : k <= m
             IN  SubSeq(s, i, j - 1) \o rep
                     \o ReplaceFrom(s, pat, rep, j + Len(pat), hits)

\* s.replace(/pat/g, rep) for a literal pattern: every occurrence, left to
\* right, occurrences not overlapping, the replacement text not rescanned
ReplaceAll(s, pat, rep) == ReplaceFrom(s, pat, rep, 1, Occurrences(s, pat))

UpperAlphabet == "ABCDEFGHIJKLMNOPQRSTUVWXYZ"
LowerAlphabet == "abcdefghijklmnopqrstuvwxyz"
Digits == "0123456789"

\* the letters and their other case
LowerOf == [c \in {SubSeq(UpperAlphabet, i, i) : i \in 1..26} |->
               LET i == IndexFrom(UpperAlphabet, c, 1) IN SubSeq(LowerAlphabet, i, i)]
UpperOf == [c \in {SubSeq(LowerAlphabet, i, i) : i \in 1..26} |->
               LET i == IndexFrom(LowerAlphabet, c, 1) IN SubSeq(UpperAlphabet, i, i)]

ToLowerChar(c) == IF c \in DOMAIN LowerOf THEN LowerOf[c] ELSE c

ToUpperChar(c) == IF c \in DOMAIN UpperOf THEN UpperOf[c] ELSE c

RECURSIVE MapChars(_, _, _)
MapChars(s, i, upper) ==
    IF i > Len(s)
    THEN ""
    ELSE (IF upper THEN ToUpperChar(SubSeq(s, i, i)) ELSE ToLowerChar(SubSeq(s, i, i)))
         \o MapChars(s, i + 1, upper)

\* s.toLowerCase()
ToLowerCase(s) == MapChars(s, 1, FALSE)

\* \w of a JavaScript regex
IsWordChar(c) ==
    \/ c \in DOMAIN LowerOf
    \/ c \in DOMAIN UpperOf
    \/ c \in {SubSeq(Digits, i, i) : i \in 1..10}
    \/ c = "_"

IsSpace(c) == c \in {" ", "\n", "\t", "\r"}

RECURSIVE FirstNonSpace(_, _)
\* position of the first character at or after i that is no white space
FirstNonSpace(s, i) ==
    IF i > Len(s) \/ ~IsSpace(SubSeq(s, i, i)) THEN i ELSE FirstNonSpace(s, i + 1)

RECURSIVE LastNonSpace(_, _)
\* position of the last character at or before i that is no white space
LastNonSpace(s, i) ==
    IF i < 1 \/ ~IsSpace(SubSeq(s, i, i)) THEN i ELSE LastNonSpace(s, i - 1)

\* s.trim()
Trim(s) == SubSeq(s, FirstNonSpace(s, 1), LastNonSpace(s, Len(s)))

(***************************************************************************)
(* JavaScript array functions.                                             *)
(***************************************************************************)
\* xs.includes(x)
ArrIncludes(xs, x) == \E i \in 1..Len(xs) : xs[i] = x

RECURSIVE Join(_, _)
\* xs.join(sep)
Join(xs, sep) ==
    IF Len(xs) = 0 THEN ""
    ELSE IF Len(xs) = 1 THEN xs[1]
    ELSE xs[1] \o sep \o Join(Tail(xs), sep)

RECURSIVE FilterNonBlank(_)
\* xs.filter(x => x.trim())
FilterNonBlank(xs) ==
    IF Len(xs) = 0 THEN <<>>
    ELSE (IF Trim(xs[1]) # "" THEN <<xs[1]>> ELSE <<>>) \o FilterNonBlank(Tail(xs))

(***************************************************************************)
(* Results of code that may throw: Return(v) or Throw(message).            *)
(***************************************************************************)
Return(v) == [threw |-> FALSE, value |-> v]
Throw(m) == [threw |-> TRUE, message |-> m]

(***************************************************************************)
(* GitHubApiService.parseGitHubUrl                                         *)
(***************************************************************************)
RECURSIVE NonSlashRun(_, _)
\* length of the longest run of characters other than "/" that starts at i:
\* what a greedy [^\/]+ consumes there
NonSlashRun(s, i) ==
    IF i > Len(s) \/ SubSeq(s, i, i) = "/" THEN 0 ELSE 1 + NonSlashRun(s, i + 1)

\* /github\.com\/([^\/]+)\/([^\/]+)/ matches s starting at position i
GitHubRegexMatchesAt(s, i) ==
    LET a == NonSlashRun(s, i + 11)
    IN  /\ StartsWithAt(s, "github.com/", i)
        /\ a >= 1
        /\ StartsWithAt(s, "/", i + 11 + a)
        /\ NonSlashRun(s, i + 12 + a) >= 1

\* url.match(regex): Null, or the two groups of the leftmost match with the
\* trailing ".git" of the second removed
parseGitHubUrl(url) ==
    LET hits == {i \in 1..Len(url) : GitHubRegexMatchesAt(url, i)}
    IN  IF hits = {}
        THEN Null
        ELSE LET i  == CHOOSE k \in hits : \A m \in hits : k <= m
                 a  == NonSlashRun(url, i + 11)
                 b  == NonSlashRun(url, i + 12 + a)
                 m1 == SubSeq(url, i + 11, i + 10 + a)
                 m2 == SubSeq(url, i + 12 + a, i + 11 + a + b)
             IN  Some([owner |-> m1,
                       repo  |-> IF EndsWith(m2, ".git")
                                 THEN SubSeq(m2, 1, Len(m2) - 4)
                                 ELSE m2])

(***************************************************************************)
(* HTTP responses of the GitHub API, as fetchGitHub sees them:             *)
(*   [kind |-> "network_error"]                  fetch itself rejects      *)
(*   [kind |-> "http", ok |-> FALSE, statusText] a non-2xx answer          *)
(*   [kind |-> "http", ok |-> TRUE, json]        the parsed JSON body      *)
(***************************************************************************)
NetworkError == [kind |-> "network_error"]
HttpError(text) == [kind |-> "http", ok |-> FALSE, statusText |-> text]
HttpOk(body) == [kind |-> "http", ok |-> TRUE, json |-> body]

\* GitHubApiService.fetchGitHub, once the response is there
fetchGitHub(resp) ==
    IF resp.kind = "network_error" THEN Throw("Failed to fetch")
    ELSE IF ~resp.ok THEN Throw("GitHub API error: " \o resp.statusText)
    ELSE Return(resp.json)

(***************************************************************************)
(* atob: base64 decoding, computed on the characters.                      *)
(***************************************************************************)
Base64Alphabet == "ABCDEFGHIJKLMNOPQRSTUVWXYZabcdefghijklmnopqrstuvwxyz0123456789+/"
\* the characters of code 32..95 and of code 97..126, in order
AsciiLow == " !\"#$%&'()*+,-./0123456789:;<=>?@ABCDEFGHIJKLMNOPQRSTUVWXYZ[\\]^_"
AsciiHigh == "abcdefghijklmnopqrstuvwxyz{|}~"

\* String.fromCharCode(n) for the codes the manifests use (line feed and
\* the printable characters other than the grave accent)
FromCharCode(n) ==
    IF n = 10 THEN "\n"
    ELSE IF n >= 32 /\ n <= 95 THEN SubSeq(AsciiLow, n - 31, n - 31)
    ELSE IF n >= 97 /\ n <= 126 THEN SubSeq(AsciiHigh, n - 96, n - 96)
    ELSE "?"

\* the base64 digits and their values
Base64Digits == [c \in {SubSeq(Base64Alphabet, i, i) : i \in 1..64} |->
                    IndexFrom(Base64Alphabet, c, 1) - 1]

\* value of a base64 digit, -1 if c is none
Base64Value(c) == IF c \in DOMAIN Base64Digits THEN Base64Digits[c] ELSE -1

\* the payload of s: s without its trailing "=" padding
Base64Payload(s) ==
    IF EndsWith(s, "==") THEN SubSeq(s, 1, Len(s) - 2)
    ELSE IF EndsWith(s, "=") THEN SubSeq(s, 1, Len(s) - 1)
    ELSE s

RECURSIVE Base64DecodeFrom(_, _)
\* the bytes of the digits of p from position i on, four digits to three bytes
Base64DecodeFrom(p, i) ==
    LET n  == Len(p) - i + 1
        v1 == Base64Value(SubSeq(p, i, i))
        v2 == Base64Value(SubSeq(p, i + 1, i + 1))
        v3 == Base64Value(SubSeq(p, i + 2, i + 2))
        v4 == Base64Value(SubSeq(p, i + 3, i + 3))
        b1 == v1 * 4 + (v2 \div 16)
        b2 == (v2 % 16) * 16 + (v3 \div 4)
        b3 == (v3 % 4) * 64 + v4
    IN  IF n <= 0 THEN ""
        ELSE IF n = 2 THEN FromCharCode(b1)
        ELSE IF n = 3 THEN FromCharCode(b1) \o FromCharCode(b2)
        ELSE FromCharCode(b1) \o FromCharCode(b2) \o FromCharCode(b3)
             \o Base64DecodeFrom(p, i + 4)

\* atob(s): throws InvalidCharacterError unless s is well-formed base64
atob(s) ==
    LET p == Base64Payload(s)
    IN  IF \/ \E i \in 1..Len(p) : Base64Value(SubSeq(p, i, i)) < 0
           \/ Len(p) % 4 = 1
           \/ (Len(s) # Len(p) /\ Len(s) % 4 # 0)
        THEN Throw("InvalidCharacterError")
        ELSE Return(Base64DecodeFrom(p, 1))

(***************************************************************************)
(* GitHubApiService.getFileContent, once the response is there.            *)
(* The JSON body of a contents answer is [content |-> Null or Some(text)]. *)
(***************************************************************************)
\* the body of the try block
getFileContentTry(resp) ==
    LET response == fetchGitHub(resp)
    IN  IF response.threw THEN response
        ELSE IF ~IsNull(response.value.content) /\ Val(response.value.content) # ""
        THEN atob(ReplaceAll(Val(response.value.content), "\n", ""))
        ELSE Throw("File content not available")

\* getFileContent without its catch block: a failure reaches the caller
getFileContentUncaught(resp) == getFileContentTry(resp)

\* try { ... } catch (error) { console.warn(...); return ''; }
getFileContent(resp) ==
    LET r == getFileContentTry(resp)
    IN  IF r.threw THEN Return("") ELSE r

(***************************************************************************)
(* JSON values and JSON.parse.                                             *)
(* An object is [type |-> "object", props |-> a function from its keys].   *)
(***************************************************************************)
JUndefined == [type |-> "undefined"]
JNull == [type |-> "null"]
JNumber(n) == [type |-> "number", value |-> n]
JString(str) == [type |-> "string", value |-> str]
JObject(props) == [type |-> "object", props |-> props]
NoProps == [k \in {} |-> JUndefined]

\* the manifest texts of the model
PkgReactNext ==
    "{\"dependencies\":{\"react\":\"^18.2.0\",\"next\":\"13.4.0\",\"express\":\"^4.18.2\"},\"devDependencies\":{\"typescript\":\"^5.0.0\"}}"
PkgDevReactNext == "{\"devDependencies\":{\"react\":\"^18.2.0\",\"next\":\"13.4.0\"}}"
PkgNextExpressMobx ==
    "{\"dependencies\":{\"next\":\"13.4.0\",\"express\":\"^4.18.2\",\"mobx\":\"^6.9.0\",\"pg\":\"^8.11.0\"},\"devDependencies\":{\"typescript\":\"^5.0.0\"}}"
\* npm reads the version "" as "*": any version of react
PkgReactAnyVersion == "{\"dependencies\":{\"react\":\"\",\"next\":\"13.4.0\"}}"
PkgNoDeps == "{\"name\":\"app\"}"
PkgNull == "null"
PkgNumber == "42"
PkgMalformed == "{\"dependencies\":"
ReqDjango == "django==4.2\npandas\n"
ReqFlaskUpper == "Flask==2.3\n"

\* JSON.parse(text) on the texts of the model; any other text of the model
\* (the empty text, the truncated object, the requirements files) is no JSON
JSON_parse(text) ==
    CASE text = PkgReactNext ->
           Return(JObject([dependencies |-> JObject([react |-> JString("^18.2.0"),
                                                     next |-> JString("13.4.0"),
                                                     express |-> JString("^4.18.2")]),
                           devDependencies |-> JObject([typescript |-> JString("^5.0.0")])]))
      [] text = PkgDevReactNext ->
           Return(JObject([devDependencies |-> JObject([react |-> JString("^18.2.0"),
                                                        next |-> JString("13.4.0")])]))
      [] text = PkgNextExpressMobx ->
           Return(JObject([dependencies |-> JObject([next |-> JString("13.4.0"),
                                                     express |-> JString("^4.18.2"),
                                                     mobx |-> JString("^6.9.0"),
                                                     pg |-> JString("^8.11.0")]),
                           devDependencies |-> JObject([typescript |-> JString("^5.0.0")])]))
      [] text = PkgReactAnyVersion ->
           Return(JObject([dependencies |-> JObject([react |-> JString(""),
                                                     next |-> JString("13.4.0")])]))
      [] text = PkgNoDeps -> Return(JObject([name |-> JString("app")]))
      [] text = PkgNull -> Return(JNull)
      [] text = PkgNumber -> Return(JNumber(42))
      [] OTHER -> Throw("SyntaxError")

\* v.key : a TypeError on null and undefined, undefined when v has no such key
GetProp(v, key) ==
    IF v.type \in {"null", "undefined"} THEN Throw("TypeError")
    ELSE IF v.type = "object" /\ key \in DOMAIN v.props THEN Return(v.props[key])
    ELSE Return(JUndefined)

\* the own enumerable properties { ...v } copies: none of null, undefined
\* or a number (those of a string or an array are its indices, no dependency
\* name, and the model has no such manifest)
SpreadProps(v) == IF v.type = "object" THEN v.props ELSE NoProps

\* { ...a, ...b }
MergeProps(a, b) ==
    [k \in (DOMAIN a) \cup (DOMAIN b) |-> IF k \in DOMAIN b THEN b[k] ELSE a[k]]

\* the truthiness of a JSON value
Truthy(v) ==
    CASE v.type = "object" -> TRUE
      [] v.type = "string" -> v.value # ""
      [] v.type = "number" -> v.value # 0
      [] OTHER -> FALSE

\* if (allDeps.key)
HasDep(allDeps, key) == key \in DOMAIN allDeps /\ Truthy(allDeps[key])

(***************************************************************************)
(* GitHubApiService.detectTechnologies                                     *)
(* A file entry is [name, path, type]; the lists being built are           *)
(* [frameworks, tools, databases, deployment].                             *)
(***************************************************************************)
NoLabels == [frameworks |-> <<>>, tools |-> <<>>, databases |-> <<>>, deployment |-> <<>>]

\* if (c) list.push(label)
PushIf(c, label) == IF c THEN <<label>> ELSE <<>>

\* files.map(f => f.name.toLowerCase())
LowerNames(files) == [i \in 1..Len(files) |-> ToLowerCase(files[i].name)]

\* the rules on allDeps, each list in the order of its push statements
PackageJsonRules(d, allDeps) ==
    LET Dep(k) == HasDep(allDeps, k)
    IN  [d EXCEPT
          !.frameworks = @
            \o (IF Dep("react")
                THEN <<"React">>
                     \o PushIf(Dep("next") \/ Dep("nextjs"), "Next.js")
                     \o PushIf(Dep("gatsby"), "Gatsby")
                     \o PushIf(Dep("react-native"), "React Native")
                ELSE <<>>)
            \o (IF Dep("vue")
                THEN <<"Vue.js">> \o PushIf(Dep("nuxt"), "Nuxt.js")
                ELSE <<>>)
            \o PushIf(Dep("angular") \/ Dep("@angular/core"), "Angular")
            \o PushIf(Dep("svelte"), "Svelte")
            \o PushIf(Dep("express"), "Express.js")
            \o PushIf(Dep("fastify"), "Fastify")
            \o PushIf(Dep("@nestjs/core"), "NestJS")
            \o PushIf(Dep("koa"), "Koa.js")
            \o PushIf(Dep("hapi"), "Hapi.js"),
          !.tools = @
            \o PushIf(Dep("webpack"), "Webpack")
            \o PushIf(Dep("vite"), "Vite")
            \o PushIf(Dep("parcel"), "Parcel")
            \o PushIf(Dep("rollup"), "Rollup")
            \o PushIf(Dep("esbuild"), "ESBuild")
            \o PushIf(Dep("tailwindcss"), "Tailwind CSS")
            \o PushIf(Dep("bootstrap"), "Bootstrap")
            \o PushIf(Dep("@mui/material"), "Material-UI")
            \o PushIf(Dep("antd"), "Ant Design")
            \o PushIf(Dep("styled-components"), "Styled Components")
            \o PushIf(Dep("jest"), "Jest")
            \o PushIf(Dep("vitest"), "Vitest")
            \o PushIf(Dep("mocha"), "Mocha")
            \o PushIf(Dep("cypress"), "Cypress")
            \o PushIf(Dep("playwright"), "Playwright")
            \o PushIf(Dep("redux"), "Redux")
            \o PushIf(Dep("zustand"), "Zustand")
            \o PushIf(Dep("mobx"), "MobX")
            \o PushIf(Dep("typescript"), "TypeScript"),
          !.databases = @
            \o PushIf(Dep("mongoose"), "MongoDB")
            \o PushIf(Dep("prisma"), "Prisma")
            \o PushIf(Dep("sequelize"), "Sequelize")
            \o PushIf(Dep("typeorm"), "TypeORM")
            \o PushIf(Dep("mysql2") \/ Dep("mysql"), "MySQL")
            \o PushIf(Dep("pg"), "PostgreSQL")
            \o PushIf(Dep("sqlite3"), "SQLite")
            \o PushIf(Dep("redis"), "Redis")]

\* v.key of an object v, undefined when v has no such key
OrUndefined(v, key) == IF key \in DOMAIN v.props THEN v.props[key] ELSE JUndefined

\* the package.json rules with a catch block that, instead of only warning,
\* takes an unreadable manifest for that of a plain Node.js project
PackageJsonStageAssumingNode(d, content) ==
    LET pkg == IF content.threw THEN content ELSE JSON_parse(content.value)
    IN  IF pkg.threw \/ pkg.value.type # "object"
        THEN [d EXCEPT !.tools = @ \o <<"npm">>]
        ELSE PackageJsonRules(d,
                 MergeProps(SpreadProps(OrUndefined(pkg.value, "dependencies")),
                            SpreadProps(OrUndefined(pkg.value, "devDependencies"))))

\* the try block of the package.json rules, from the point where the awaited
\* getFileContent has settled as content; the catch block only warns
PackageJsonStage(d, content) ==
    IF content.threw THEN d
    ELSE IF content.value = "" THEN d
    ELSE LET pkg == JSON_parse(content.value)
         IN  IF pkg.threw THEN d
             ELSE LET deps == GetProp(pkg.value, "dependencies")
                      dev  == GetProp(pkg.value, "devDependencies")
                  IN  IF deps.threw \/ dev.threw THEN d
                      ELSE PackageJsonRules(d,
                               MergeProps(SpreadProps(deps.value), SpreadProps(dev.value)))

\* the condition of the Python rules
HasPythonManifest(fileNames) ==
    \/ ArrIncludes(fileNames, "requirements.txt")
    \/ ArrIncludes(fileNames, "pyproject.toml")
    \/ ArrIncludes(fileNames, "pipfile")

\* tools.push('pip'), before the try block of the Python rules
PythonPip(d) == [d EXCEPT !.tools = @ \o <<"pip">>]

\* the try block of the Python rules, from the point where pythonDeps is
\* known (the fetched text, or '' when requirements.txt is not listed)
PythonStage(d, content) ==
    IF content.threw THEN d
    ELSE LET pythonDeps == content.value
         IN  [d EXCEPT
               !.frameworks = @
                 \o PushIf(Includes(pythonDeps, "django"), "Django")
                 \o PushIf(Includes(pythonDeps, "flask"), "Flask")
                 \o PushIf(Includes(pythonDeps, "fastapi"), "FastAPI")
                 \o PushIf(Includes(pythonDeps, "streamlit"), "Streamlit")
                 \o PushIf(Includes(pythonDeps, "tensorflow"), "TensorFlow")
                 \o PushIf(Includes(pythonDeps, "pytorch"), "PyTorch"),
               !.tools = @
                 \o PushIf(Includes(pythonDeps, "pandas"), "Pandas")
                 \o PushIf(Includes(pythonDeps, "numpy"), "NumPy")]

\* the rules that read the listing only: Java, .NET, Go, Rust, Docker,
\* CI/CD, configuration files, database files
ListingRules(d, files) ==
    LET fileNames == LowerNames(files)
        Has(n) == ArrIncludes(fileNames, n)
        SomeFile(P(_)) == \E i \in 1..Len(files) : P(files[i])
        IsDotNet(f) == EndsWith(f.name, ".csproj") \/ EndsWith(f.name, ".sln")
        InWorkflows(f) == Includes(f.path, ".github/workflows")
        IsSql(f) == EndsWith(f.name, ".sql")
    IN  [d EXCEPT
          !.tools = @
            \o PushIf(Has("pom.xml"), "Maven")
            \o PushIf(Has("build.gradle"), "Gradle")
            \o PushIf(Has("cargo.toml"), "Cargo")
            \o PushIf(Has("tsconfig.json"), "TypeScript")
            \o PushIf(Has("tailwind.config.js") \/ Has("tailwind.config.ts"), "Tailwind CSS"),
          !.frameworks = @
            \o PushIf(Has("pom.xml"), "Java")
            \o PushIf(Has("build.gradle"), "Java")
            \o PushIf(SomeFile(IsDotNet), ".NET")
            \o PushIf(Has("go.mod"), "Go")
            \o PushIf(Has("cargo.toml"), "Rust")
            \o PushIf(Has("next.config.js"), "Next.js")
            \o PushIf(Has("nuxt.config.js"), "Nuxt.js")
            \o PushIf(Has("vue.config.js"), "Vue.js")
            \o PushIf(Has("angular.json"), "Angular"),
          !.deployment = @
            \o PushIf(Has("dockerfile") \/ Has("docker-compose.yml")
                        \/ Has("docker-compose.yaml"), "Docker")
            \o PushIf(SomeFile(InWorkflows), "GitHub Actions")
            \o PushIf(Has(".travis.yml"), "Travis CI")
            \o PushIf(Has("jenkinsfile"), "Jenkins")
            \o PushIf(Has(".gitlab-ci.yml"), "GitLab CI"),
          !.databases = @
            \o PushIf(SomeFile(IsSql), "SQL")
            \o PushIf(Has("schema.prisma"), "Prisma")]

RECURSIVE DedupKeepingLast(_)
\* a deduplication that keeps the last occurrence of a label, not the first
DedupKeepingLast(xs) ==
    IF Len(xs) = 0 THEN <<>>
    ELSE LET rest == DedupKeepingLast(Tail(xs))
         IN  IF ArrIncludes(Tail(xs), Head(xs)) THEN rest ELSE <<Head(xs)>> \o rest

RECURSIVE Dedup(_)
\* [...new Set(xs)]: the elements of xs in the order of their first occurrence
Dedup(xs) ==
    IF Len(xs) = 0 THEN <<>>
    ELSE LET init == Dedup(SubSeq(xs, 1, Len(xs) - 1))
             last == xs[Len(xs)]
         IN  IF ArrIncludes(init, last) THEN init ELSE Append(init, last)

\* the value detectTechnologies returns
TechStackOf(languages, d) ==
    [languages  |-> languages,
     frameworks |-> Dedup(d.frameworks),
     tools      |-> Dedup(d.tools),
     databases  |-> Dedup(d.databases),
     deployment |-> Dedup(d.deployment)]

(***************************************************************************)
(* ReadmeGenerator: helpers.                                               *)
(* A repository is [name, full_name, description, html_url, clone_url,     *)
(* language, license, created_at, updated_at, size]; description, language *)
(* and license are optional, license is [name, spdx_id].                   *)
(***************************************************************************)
RECURSIVE IntToString(_)
\* String(n) for an integer n >= 0
IntToString(n) ==
    IF n < 10 THEN SubSeq(Digits, n + 1, n + 1)
    ELSE IntToString(n \div 10) \o SubSeq(Digits, (n % 10) + 1, (n % 10) + 1)

\* o || fallback for an optional string
OrElse(o, fallback) == IF IsNull(o) \/ Val(o) = "" THEN fallback ELSE Val(o)

RECURSIVE CapitalizeFrom(_, _)
\* .replace(/\b\w/g, l => l.toUpperCase()): a word character that follows no
\* word character is upper-cased
CapitalizeFrom(s, i) ==
    IF i > Len(s) THEN ""
    ELSE LET c == SubSeq(s, i, i)
             atWordStart == IsWordChar(c) /\ (i = 1 \/ ~IsWordChar(SubSeq(s, i - 1, i - 1)))
         IN  (IF atWordStart THEN ToUpperChar(c) ELSE c) \o CapitalizeFrom(s, i + 1)

\* ReadmeGenerator.getCloneUrl / getRepoName: the placeholder, unchanged
getCloneUrl(placeholder) == placeholder
getRepoName(placeholder) == placeholder

\* ReadmeGenerator.hasPackageJson
hasPackageJson(files) == \E i \in 1..Len(files) : ToLowerCase(files[i].name) = "package.json"

(***************************************************************************)
(* generateHeader, generateBadges                                          *)
(***************************************************************************)
generateHeader(repository) ==
    LET title == CapitalizeFrom(ReplaceAll(ReplaceAll(repository.name, "-", " "), "_", " "), 1)
    IN  "# " \o title \o "\n\n" \o OrElse(repository.description, "A modern application.")

getLanguageColor(language) ==
    CASE language = "JavaScript" -> "F7DF1E"
      [] language = "TypeScript" -> "3178C6"
      [] language = "Python" -> "3776AB"
      [] language = "Java" -> "ED8B00"
      [] language = "Go" -> "00ADD8"
      [] language = "Rust" -> "000000"
      [] language = "C++" -> "00599C"
      [] language = "C#" -> "239120"
      [] language = "PHP" -> "777BB4"
      [] language = "Ruby" -> "CC342D"
      [] language = "Swift" -> "FA7343"
      [] language = "Kotlin" -> "0095D5"
      [] OTHER -> "000000"

\* the frameworks that have a badge
BadgedFrameworks ==
    {"React", "Next.js", "Vue.js", "Angular", "Express.js", "Django", "Flask", "FastAPI"}

\* ReadmeGenerator.getFrameworkBadge: Null for a framework without a badge
getFrameworkBadge(framework) ==
    IF framework \in BadgedFrameworks
    THEN Some("[![" \o framework \o "](badge/" \o framework \o ")]()")
    ELSE Null

RECURSIVE FrameworkBadges(_)
FrameworkBadges(frameworks) ==
    IF Len(frameworks) = 0 THEN <<>>
    ELSE getFrameworkBadge(frameworks[1]) \o FrameworkBadges(Tail(frameworks))

generateBadges(repository, techStack) ==
    LET github ==
          << "[![Stars](stars/" \o repository.full_name \o ")](" \o repository.html_url \o "/stargazers)",
             "[![Forks](forks/" \o repository.full_name \o ")](" \o repository.html_url \o "/network/members)",
             "[![Issues](issues/" \o repository.full_name \o ")](" \o repository.html_url \o "/issues)" >>
        language ==
          IF IsNull(repository.language) \/ Val(repository.language) = "" THEN <<>>
          ELSE LET l == Val(repository.language)
               IN  << "[![" \o l \o "](badge/" \o l \o "-" \o getLanguageColor(l)
                      \o "?logo=" \o ToLowerCase(l) \o ")]()" >>
        license ==
          IF IsNull(repository.license) THEN <<>>
          ELSE << "[![License](badge/License-" \o Val(repository.license).spdx_id
                  \o "-green)](LICENSE)" >>
    IN  Join(github \o language \o FrameworkBadges(techStack.frameworks) \o license, "\n")

(***************************************************************************)
(* generateDescription, detectProjectType, formatBytes                     *)
(***************************************************************************)
detectProjectType(techStack, files) ==
    LET fileNames == LowerNames(files)
        Fw(x) == ArrIncludes(techStack.frameworks, x)
        Has(n) == ArrIncludes(fileNames, n)
    IN  IF Fw("React") THEN (IF Fw("Next.js") THEN Some("Next.js Web Application")
                             ELSE Some("React Web Application"))
        ELSE IF Fw("Vue.js") THEN (IF Fw("Nuxt.js") THEN Some("Nuxt.js Web Application")
                                   ELSE Some("Vue.js Web Application"))
        ELSE IF Fw("Angular") THEN Some("Angular Web Application")
        ELSE IF Fw("Django") THEN Some("Django Web Application")
        ELSE IF Fw("Flask") THEN Some("Flask Web Application")
        ELSE IF Fw("Express.js") THEN Some("Node.js Backend API")
        ELSE IF Fw("FastAPI") THEN Some("FastAPI Backend API")
        ELSE IF Has("package.json") THEN Some("Node.js Application")
        ELSE IF Has("requirements.txt") THEN Some("Python Application")
        ELSE IF Has("pom.xml") THEN Some("Java Application")
        ELSE IF Has("cargo.toml") THEN Some("Rust Application")
        ELSE IF Has("go.mod") THEN Some("Go Application")
        ELSE Null

RECURSIVE FloorLog1024(_)
\* Math.floor(Math.log(bytes) / Math.log(1024)) for an integer bytes >= 1
FloorLog1024(bytes) == IF bytes < 1024 THEN 0 ELSE 1 + FloorLog1024(bytes \div 1024)

RECURSIVE Pow1024(_)
Pow1024(i) == IF i = 0 THEN 1 ELSE 1024 * Pow1024(i - 1)

\* the unit table of formatBytes; sizes[i] of an index outside it is undefined
SizeUnit(i) ==
    CASE i = 0 -> "Bytes"
      [] i = 1 -> "KB"
      [] i = 2 -> "MB"
      [] i = 3 -> "GB"
      [] OTHER -> "undefined"

\* String(parseFloat(x.toFixed(2))) for x = num / den: x rounded to the
\* hundredths (a tie upwards), written without trailing zeros
FixedTwoShortest(num, den) ==
    LET h     == (2 * 100 * num + den) \div (2 * den)
        whole == h \div 100
        frac  == h % 100
    IN  IF frac = 0 THEN IntToString(whole)
        ELSE IF frac % 10 = 0 THEN IntToString(whole) \o "." \o IntToString(frac \div 10)
        ELSE IntToString(whole) \o "." \o IntToString(frac \div 10) \o IntToString(frac % 10)

formatBytes(bytes) ==
    IF bytes = 0 THEN "0 Bytes"
    ELSE LET i == FloorLog1024(bytes)
         IN  FixedTwoShortest(bytes, Pow1024(i)) \o " " \o SizeUnit(i)

\* formatBytes(n * 1024^shift), computed without forming the product, which
\* can be beyond 32 bits: the unit index is that of n plus shift, and the
\* number written is n over the power of 1024 below it
formatBytesScaled(n, shift) ==
    IF n = 0 THEN "0 Bytes"
    ELSE LET i == FloorLog1024(n)
         IN  FixedTwoShortest(n, Pow1024(i)) \o " " \o SizeUnit(i + shift)

\* strip one leading zero of a two-digit field
NoLeadingZero(dd) == IF SubSeq(dd, 1, 1) = "0" THEN SubSeq(dd, 2, 2) ELSE dd

\* new Date(iso).toLocaleDateString() of an ISO timestamp YYYY-MM-DDThh:mm:ssZ,
\* in the en-US locale and the UTC time zone: M/D/YYYY
toLocaleDateString(iso) ==
    NoLeadingZero(SubSeq(iso, 6, 7)) \o "/" \o NoLeadingZero(SubSeq(iso, 9, 10))
        \o "/" \o SubSeq(iso, 1, 4)

generateDescription(repository, techStack, files) ==
    LET projectType == detectProjectType(techStack, files)
    IN  "## About\n\n"
        \o OrElse(repository.description, "This project showcases modern development practices.")
        \o "\n\n"
        \o (IF IsNull(projectType) THEN ""
            ELSE "**Project Type:** " \o Val(projectType) \o "\n\n")
        \o "**Created:** " \o toLocaleDateString(repository.created_at) \o "\n"
        \o "**Last Updated:** " \o toLocaleDateString(repository.updated_at) \o "\n"
        \o "**Repository Size:** " \o formatBytes(repository.size * 1024)

(***************************************************************************)
(* shouldIncludeApiDocs, generateTableOfContents, generateFeatures         *)
(***************************************************************************)
\* a predicate that looks at the frameworks only
shouldIncludeApiDocsByFramework(techStack, files) ==
    \E i \in 1..Len(techStack.frameworks) :
        LET fw == techStack.frameworks[i]
        IN  \/ Includes(fw, "Express") \/ Includes(fw, "Fastify")
            \/ Includes(fw, "NestJS") \/ Includes(fw, "Django")
            \/ Includes(fw, "Flask") \/ Includes(fw, "FastAPI")

shouldIncludeApiDocs(techStack, files) ==
    LET hasApi ==
          \E i \in 1..Len(techStack.frameworks) :
              LET fw == techStack.frameworks[i]
              IN  \/ Includes(fw, "Express") \/ Includes(fw, "Fastify")
                  \/ Includes(fw, "NestJS") \/ Includes(fw, "Django")
                  \/ Includes(fw, "Flask") \/ Includes(fw, "FastAPI")
        hasApiFiles ==
          \E i \in 1..Len(files) :
              \/ Includes(ToLowerCase(files[i].name), "api")
              \/ Includes(ToLowerCase(files[i].path), "routes")
              \/ Includes(ToLowerCase(files[i].path), "controllers")
              \/ Includes(ToLowerCase(files[i].path), "endpoints")
    IN  hasApi \/ hasApiFiles

\* a table of contents that looks for the exact name package.json
generateTableOfContentsExactName(techStack, files) ==
    LET sections ==
          << "- [About](#-about)",
             "- [Features](#-features)",
             "- [Technology Stack](#-technology-stack)",
             "- [Installation](#-installation)",
             "- [Usage](#-usage)",
             "- [Project Structure](#-project-structure)" >>
          \o PushIf(shouldIncludeApiDocs(techStack, files),
                    "- [API Documentation](#-api-documentation)")
          \o PushIf(\E i \in DOMAIN files : files[i].name = "package.json",
                    "- [Available Scripts](#-available-scripts)")
          \o << "- [Contributing](#-contributing)",
                "- [License](#-license)",
                "- [Contact](#-contact)" >>
    IN  "## Table of Contents\n\n" \o Join(sections, "\n")

generateTableOfContents(techStack, files) ==
    LET sections ==
          << "- [About](#-about)",
             "- [Features](#-features)",
             "- [Technology Stack](#-technology-stack)",
             "- [Installation](#-installation)",
             "- [Usage](#-usage)",
             "- [Project Structure](#-project-structure)" >>
          \o PushIf(shouldIncludeApiDocs(techStack, files),
                    "- [API Documentation](#-api-documentation)")
          \o PushIf(hasPackageJson(files), "- [Available Scripts](#-available-scripts)")
          \o << "- [Contributing](#-contributing)",
                "- [License](#-license)",
                "- [Contact](#-contact)" >>
    IN  "## Table of Contents\n\n" \o Join(sections, "\n")

\* the four default features
DefaultFeatures ==
    << "Modern and clean architecture",
       "Optimized for performance",
       "Secure coding practices",
       "Responsive and user-friendly design" >>

\* the features derived from the profile and the listing, before the default
DerivedFeatures(techStack, files) ==
    LET fileNames == LowerNames(files)
        Fw(x) == ArrIncludes(techStack.frameworks, x)
        Tool(x) == ArrIncludes(techStack.tools, x)
        Has(n) == ArrIncludes(fileNames, n)
    IN  (IF Fw("React")
         THEN <<"Built with React for dynamic user interfaces">>
              \o PushIf(Tool("TypeScript"), "Full TypeScript support for type safety")
         ELSE <<>>)
        \o (IF Fw("Next.js")
            THEN <<"Server-side rendering with Next.js", "Optimized for performance and SEO">>
            ELSE <<>>)
        \o PushIf(Tool("Tailwind CSS"), "Responsive design with Tailwind CSS")
        \o PushIf(Fw("Express.js"), "RESTful API with Express.js")
        \o PushIf(Len(techStack.databases) > 0,
                  "Database integration with " \o Join(techStack.databases, ", "))
        \o PushIf(Has("dockerfile"), "Docker containerization for easy deployment")
        \o PushIf(\E i \in 1..Len(files) : Includes(files[i].path, ".github/workflows"),
                  "Automated CI/CD with GitHub Actions")
        \o PushIf(\E i \in 1..Len(fileNames) :
                      Includes(fileNames[i], "test") \/ Includes(fileNames[i], "spec"),
                  "Comprehensive testing suite")
        \o PushIf(Has(".env.example"), "Environment-based configuration")

\* generateFeatures pushing the default features whatever was derived
generateFeaturesAlwaysDefaults(repository, techStack, files) ==
    "## Features\n\n" \o Join(DerivedFeatures(techStack, files) \o DefaultFeatures, "\n")

generateFeatures(repository, techStack, files) ==
    LET derived  == DerivedFeatures(techStack, files)
        features == IF Len(derived) = 0 THEN DefaultFeatures ELSE derived
    IN  "## Features\n\n" \o Join(features, "\n")

(***************************************************************************)
(* generateTechStack                                                       *)
(* techStack.languages is the sequence of the [name, bytes] entries of the *)
(* language map, in the order of its keys.                                 *)
(***************************************************************************)
RECURSIVE SumBytes(_)
SumBytes(languages) ==
    IF Len(languages) = 0 THEN 0 ELSE languages[1].bytes + SumBytes(Tail(languages))

RECURSIVE InsertByBytes(_, _)
\* x inserted behind every entry that has at least as many bytes
InsertByBytes(sorted, x) ==
    IF Len(sorted) = 0 THEN <<x>>
    ELSE IF sorted[1].bytes >= x.bytes THEN <<sorted[1]>> \o InsertByBytes(Tail(sorted), x)
    ELSE <<x>> \o sorted

\* the language list left in the order of the keys of the map
SortByBytesUnsorted(languages) == languages

RECURSIVE SortByBytesDesc(_)
\* .sort(([,a], [,b]) => b - a): by bytes, descending, equal entries in
\* their given order
SortByBytesDesc(languages) ==
    IF Len(languages) = 0 THEN <<>>
    ELSE InsertByBytes(SortByBytesDesc(SubSeq(languages, 1, Len(languages) - 1)),
                       languages[Len(languages)])

\* ((bytes / total) * 100).toFixed(1): the share rounded to the tenths (a tie
\* upwards), always with one decimal; NaN when total is 0
PercentFixedOne(bytes, total) ==
    IF total = 0 THEN "NaN"
    ELSE LET t == (2 * 1000 * bytes + total) \div (2 * total)
         IN  IntToString(t \div 10) \o "." \o IntToString(t % 10)

RECURSIVE LanguageLines(_, _)
LanguageLines(sorted, total) ==
    IF Len(sorted) = 0 THEN <<>>
    ELSE << "- **" \o sorted[1].name \o "** ("
            \o PercentFixedOne(sorted[1].bytes, total) \o "%)" >>
         \o LanguageLines(Tail(sorted), total)

RECURSIVE BoldLines(_)
\* xs.map(x => '- **' + x + '**')
BoldLines(xs) ==
    IF Len(xs) = 0 THEN <<>>
    ELSE << "- **" \o xs[1] \o "**" >> \o BoldLines(Tail(xs))

generateTechStack(techStack) ==
    LET Sub(title, xs) ==
          PushIf(Len(xs) > 0, "### " \o title \o "\n" \o Join(BoldLines(xs), "\n"))
        sections ==
          PushIf(Len(techStack.languages) > 0,
                 "### Programming Languages\n"
                 \o Join(LanguageLines(SortByBytesDesc(techStack.languages),
                                       SumBytes(techStack.languages)), "\n"))
          \o Sub("Frameworks & Libraries", techStack.frameworks)
          \o Sub("Development Tools", techStack.tools)
          \o Sub("Databases & Storage", techStack.databases)
          \o Sub("Deployment & DevOps", techStack.deployment)
    IN  "## Technology Stack\n\n" \o Join(sections, "\n\n")

(***************************************************************************)
(* generateInstallation, generateUsage                                     *)
(***************************************************************************)
\* the package manager named by the lockfile of the listing
PackageManager(fileNames) ==
    IF ArrIncludes(fileNames, "yarn.lock") THEN "yarn"
    ELSE IF ArrIncludes(fileNames, "pnpm-lock.yaml") THEN "pnpm"
    ELSE "npm"

\* step 1 of every installation template
CloneStep ==
    "1. **Clone the repository**\n   git clone " \o getCloneUrl("REPO_URL")
        \o "\n   cd " \o getRepoName("REPO_NAME") \o "\n"

InstallNode(packageManager) ==
    "### Prerequisites\n- Node.js (version 16 or higher)\n- " \o packageManager
        \o " package manager\n\n### Installation Steps\n\n" \o CloneStep
        \o "2. **Install dependencies**\n   " \o packageManager \o " install\n"
        \o "4. **Start the development server**\n   " \o packageManager \o " run dev"

InstallPython ==
    "### Prerequisites\n- Python 3.8 or higher\n- pip package manager\n\n"
        \o "### Installation Steps\n\n" \o CloneStep
        \o "3. **Install dependencies**\n   pip install -r requirements.txt\n"
        \o "4. **Run the application**\n   python main.py"

InstallJava ==
    "### Prerequisites\n- Java 11 or higher\n- Maven\n\n"
        \o "### Installation Steps\n\n" \o CloneStep
        \o "2. **Build the project**\n   mvn clean install\n"
        \o "3. **Run the application**\n   mvn spring-boot:run"

InstallGeneric ==
    "### Prerequisites\n- Check the technology stack above for specific requirements\n\n"
        \o "### Installation Steps\n\n" \o CloneStep
        \o "4. **Run the application according to your platform requirements**"

\* generateInstallation with the Python test before the package.json test
generateInstallationPythonFirst(techStack, files) ==
    LET fileNames == LowerNames(files)
        installSteps ==
          IF \/ ArrIncludes(fileNames, "requirements.txt")
             \/ ArrIncludes(fileNames, "pyproject.toml")
          THEN InstallPython
          ELSE IF ArrIncludes(fileNames, "package.json")
          THEN InstallNode(PackageManager(fileNames))
          ELSE IF ArrIncludes(fileNames, "pom.xml")
          THEN InstallJava
          ELSE InstallGeneric
    IN  "## Installation\n\n" \o installSteps

\* generateInstallation without its final else: no generic instructions
generateInstallationNoFallback(techStack, files) ==
    LET fileNames == LowerNames(files)
        installSteps ==
          IF ArrIncludes(fileNames, "package.json")
          THEN InstallNode(PackageManager(fileNames))
          ELSE IF \/ ArrIncludes(fileNames, "requirements.txt")
                  \/ ArrIncludes(fileNames, "pyproject.toml")
          THEN InstallPython
          ELSE IF ArrIncludes(fileNames, "pom.xml")
          THEN InstallJava
          ELSE ""
    IN  "## Installation\n\n" \o installSteps

generateInstallation(techStack, files) ==
    LET fileNames == LowerNames(files)
        installSteps ==
          IF ArrIncludes(fileNames, "package.json")
          THEN InstallNode(PackageManager(fileNames))
          ELSE IF \/ ArrIncludes(fileNames, "requirements.txt")
                  \/ ArrIncludes(fileNames, "pyproject.toml")
          THEN InstallPython
          ELSE IF ArrIncludes(fileNames, "pom.xml")
          THEN InstallJava
          ELSE InstallGeneric
    IN  "## Installation\n\n" \o installSteps

UsageNode(packageManager) ==
    "### Development Mode\n" \o packageManager \o " run dev\n\n"
        \o "### Production Build\n" \o packageManager \o " run build\n"
        \o packageManager \o " start"

UsagePython ==
    "### Running the Application\npython main.py\n\n### Running Tests\npython -m pytest"

UsageGeneric ==
    "### Basic Usage\n\nAfter installation, you can start using the application."

generateUsage(repository, techStack, files) ==
    LET fileNames == LowerNames(files)
        usageContent ==
          IF ArrIncludes(fileNames, "package.json")
          THEN UsageNode(PackageManager(fileNames))
          ELSE IF ArrIncludes(fileNames, "requirements.txt")
          THEN UsagePython
          ELSE UsageGeneric
    IN  "## Usage\n\n" \o usageContent

(***************************************************************************)
(* generateProjectStructure, buildFileTree                                 *)
(***************************************************************************)
\* the characters of the file names of the model, in the order of the
\* collation localeCompare uses: punctuation, digits, letters
CollationOrder == "_-.0123456789abcdefghijklmnopqrstuvwxyz"

CollationRanks == [c \in {SubSeq(CollationOrder, i, i) : i \in 1..Len(CollationOrder)} |->
                      IndexFrom(CollationOrder, c, 1)]

CollationRank(c) == CollationRanks[ToLowerChar(c)]

RECURSIVE ComparePrimary(_, _, _)
\* the strings compared from position i on, letter case ignored
ComparePrimary(a, b, i) ==
    IF i > Len(a) /\ i > Len(b) THEN 0
    ELSE IF i > Len(a) THEN -1
    ELSE IF i > Len(b) THEN 1
    ELSE LET ra == CollationRank(SubSeq(a, i, i))
             rb == CollationRank(SubSeq(b, i, i))
         IN  IF ra < rb THEN -1 ELSE IF ra > rb THEN 1 ELSE ComparePrimary(a, b, i + 1)

RECURSIVE CompareCase(_, _, _)
\* strings equal up to letter case: at the first difference the lower-case
\* letter comes first
CompareCase(a, b, i) ==
    IF i > Len(a) THEN 0
    ELSE IF SubSeq(a, i, i) = SubSeq(b, i, i) THEN CompareCase(a, b, i + 1)
    ELSE IF SubSeq(a, i, i) = ToLowerChar(SubSeq(a, i, i)) THEN -1
    ELSE 1

\* a.localeCompare(b), for names over the characters of CollationOrder
localeCompare(a, b) ==
    LET p == ComparePrimary(a, b, 1)
    IN  IF p # 0 THEN p ELSE CompareCase(a, b, 1)

\* the comparator of buildFileTree
CompareFiles(a, b) ==
    IF a.type = "dir" /\ b.type = "file" THEN -1
    ELSE IF a.type = "file" /\ b.type = "dir" THEN 1
    ELSE localeCompare(a.name, b.name)

RECURSIVE InsertFile(_, _)
InsertFile(sorted, x) ==
    IF Len(sorted) = 0 THEN <<x>>
    ELSE IF CompareFiles(sorted[1], x) <= 0 THEN <<sorted[1]>> \o InsertFile(Tail(sorted), x)
    ELSE <<x>> \o sorted

\* a buildFileTree that renders the entries in the order of the listing
SortFilesKeepingOrder(files) == files

RECURSIVE SortFiles(_)
\* the array after files.sort(comparator): a stable sort
SortFiles(files) ==
    IF Len(files) = 0 THEN <<>>
    ELSE InsertFile(SortFiles(SubSeq(files, 1, Len(files) - 1)), files[Len(files)])

RECURSIVE TreeLines(_, _)
TreeLines(sortedFiles, index) ==
    IF index > Len(sortedFiles) THEN <<>>
    ELSE LET file   == sortedFiles[index]
             isLast == index = Len(sortedFiles)
             prefix == IF isLast THEN "+-- " ELSE "|-- "
             icon   == IF file.type = "dir" THEN "[dir] " ELSE "[file] "
         IN  <<prefix \o icon \o file.name>> \o TreeLines(sortedFiles, index + 1)

\* the text buildFileTree returns, "+-- " standing for the glyph of the last
\* line and "|-- " for the glyph of the others; the array it was given is
\* sorted in place, see SortFiles
buildFileTree(files) == Join(TreeLines(SortFiles(files), 1), "\n")

generateProjectStructure(files) ==
    "## Project Structure\n\n" \o buildFileTree(files)

(***************************************************************************)
(* generateApiDocs, generateScripts, generateContributing, generateLicense,*)
(* generateContact                                                         *)
(***************************************************************************)
generateApiDocs(techStack) ==
    LET port == IF ArrIncludes(techStack.frameworks, "Django") THEN "8000" ELSE "3000"
    IN  "## API Documentation\n\n### Base URL\nhttp://localhost:" \o port \o "/api"

generateScripts == "## Available Scripts\n\nRun npm run to see all available scripts."

generateContributing == "## Contributing\n\nWe welcome contributions to this project!"

generateLicense(repository) ==
    LET license == IF IsNull(repository.license) \/ Val(repository.license).name = ""
                   THEN "MIT License" ELSE Val(repository.license).name
        spdxId  == IF IsNull(repository.license) \/ Val(repository.license).spdx_id = ""
                   THEN "MIT" ELSE Val(repository.license).spdx_id
    IN  "## License\n\nThis project is licensed under the " \o license
        \o ".\n\n[![License](badge/License-" \o spdxId \o "-blue.svg)](LICENSE)"

\* full_name.split('/')[0]
OwnerOf(full_name) ==
    LET j == IndexFrom(full_name, "/", 1)
    IN  IF j = 0 THEN full_name ELSE SubSeq(full_name, 1, j - 1)

generateContact(repository) ==
    LET ownerName == OwnerOf(repository.full_name)
    IN  "## Contact\n\n**Project Maintainer:** [@" \o ownerName \o "](https://github.com/"
        \o ownerName \o ")\n\n**Project Link:** [" \o repository.html_url \o "]("
        \o repository.html_url \o ")"

(***************************************************************************)
(* generateReadme and the placeholder replacement of handleAnalyze         *)
(***************************************************************************)
\* the sections array, in the order of its push statements
ReadmeSections(repository, techStack, files) ==
    << generateHeader(repository),
       generateBadges(repository, techStack),
       generateDescription(repository, techStack, files),
       generateTableOfContents(techStack, files),
       generateFeatures(repository, techStack, files),
       generateTechStack(techStack),
       generateInstallation(techStack, files),
       generateUsage(repository, techStack, files),
       generateProjectStructure(files) >>
    \o PushIf(shouldIncludeApiDocs(techStack, files), generateApiDocs(techStack))
    \o PushIf(hasPackageJson(files), generateScripts)
    \o << generateContributing,
          generateLicense(repository),
          generateContact(repository) >>

\* a generateReadme that pushes the Contact section before the License section
generateReadmeContactFirst(repository, techStack, files) ==
    LET s == FilterNonBlank(ReadmeSections(repository, techStack, files))
        n == Len(s)
    IN  Join(SubSeq(s, 1, n - 2) \o <<s[n], s[n - 1]>>, "\n\n")

generateReadme(repository, techStack, files) ==
    Join(FilterNonBlank(ReadmeSections(repository, techStack, files)), "\n\n")

\* readme.replace(/REPO_URL/g, repo.clone_url).replace(/REPO_NAME/g, repo.name)
ReplacePlaceholders(readme, repo) ==
    ReplaceAll(ReplaceAll(readme, "REPO_URL", repo.clone_url), "REPO_NAME", repo.name)

(***************************************************************************)
(* The inputs of the model: what the user submits and what the GitHub API  *)
(* answers.                                                                *)
(***************************************************************************)
Urls ==
    { "https://github.com/acme/app",
      "https://github.com/acme/app.git",
      "https://github.com/acme",
      "https://gitlab.com/acme/app" }

RepoPlain ==
    [name        |-> "my-app",
     full_name   |-> "acme/my-app",
     description |-> Some("A demo app"),
     html_url    |-> "https://github.com/acme/my-app",
     clone_url   |-> "https://github.com/acme/my-app.git",
     language    |-> Some("TypeScript"),
     license     |-> Some([name |-> "Apache License 2.0", spdx_id |-> "Apache-2.0"]),
     created_at  |-> "2023-01-05T10:00:00Z",
     updated_at  |-> "2024-11-20T08:30:00Z",
     size        |-> 1536]

\* a repository whose name is the text of a placeholder
RepoNamedAsPlaceholder ==
    [name        |-> "REPO_NAME",
     full_name   |-> "acme/REPO_NAME",
     description |-> Null,
     html_url    |-> "https://github.com/acme/REPO_NAME",
     clone_url   |-> "https://github.com/acme/REPO_NAME.git",
     language    |-> Null,
     license     |-> Null,
     created_at  |-> "2022-12-31T23:59:59Z",
     updated_at  |-> "2023-02-01T00:00:00Z",
     size        |-> 0]

\* a repository whose description mentions a placeholder
RepoDescribingPlaceholder ==
    [name        |-> "env_tools",
     full_name   |-> "acme/env_tools",
     description |-> Some("Reads REPO_URL from .env"),
     html_url    |-> "https://github.com/acme/env_tools",
     clone_url   |-> "https://github.com/acme/env_tools.git",
     language    |-> Some("Python"),
     license     |-> Null,
     created_at  |-> "2021-06-15T12:00:00Z",
     updated_at  |-> "2021-06-16T12:00:00Z",
     size        |-> 1024]

Repos == {RepoPlain, RepoNamedAsPlaceholder, RepoDescribingPlaceholder}

\* an entry of a root listing: its path is its name
RootEntry(name, type) == [name |-> name, path |-> name, type |-> type]

FileUniverse ==
    { RootEntry("package.json", "file"),
      RootEntry("requirements.txt", "file"),
      RootEntry("pyproject.toml", "file"),
      RootEntry("pom.xml", "file"),
      RootEntry("next.config.js", "file"),
      RootEntry("README.md", "file"),
      RootEntry("Dockerfile", "file"),
      RootEntry("src", "dir"),
      RootEntry("api", "dir") }

\* the listings: at most MaxFiles entries of different names, in any order
Listings ==
    { l \in UNION {[1..n -> FileUniverse] : n \in 0..MaxFiles} :
        \A i, j \in 1..Len(l) : i # j => l[i] # l[j] }

LanguageMaps ==
    { <<>>,
      << [name |-> "JavaScript", bytes |-> 200], [name |-> "TypeScript", bytes |-> 800] >>,
      << [name |-> "Python", bytes |-> 1993] >> }

\* the language maps the API can answer with for the repository repo: its
\* language field is the language of most bytes, null when there is none
LanguagesOf(repo) ==
    { m \in LanguageMaps :
        IF IsNull(repo.language) THEN m = <<>>
        ELSE \E i \in DOMAIN m :
                 /\ m[i].name = Val(repo.language)
                 /\ \A j \in DOMAIN m : m[j].bytes <= m[i].bytes }

\* text as the contents API delivers it: base64 in lines of 60 characters
PkgReactNextBase64 ==
    "eyJkZXBlbmRlbmNpZXMiOnsicmVhY3QiOiJeMTguMi4wIiwibmV4dCI6IjEz\nLjQuMCIsImV4cHJlc3MiOiJeNC4xOC4yIn0sImRldkRlcGVuZGVuY2llcyI6\neyJ0eXBlc2NyaXB0IjoiXjUuMC4wIn19\n"
PkgDevReactNextBase64 ==
    "eyJkZXZEZXBlbmRlbmNpZXMiOnsicmVhY3QiOiJeMTguMi4wIiwibmV4dCI6\nIjEzLjQuMCJ9fQ==\n"
PkgNextExpressMobxBase64 ==
    "eyJkZXBlbmRlbmNpZXMiOnsibmV4dCI6IjEzLjQuMCIsImV4cHJlc3MiOiJe\nNC4xOC4yIiwibW9ieCI6Il42LjkuMCIsInBnIjoiXjguMTEuMCJ9LCJkZXZE\nZXBlbmRlbmNpZXMiOnsidHlwZXNjcmlwdCI6Il41LjAuMCJ9fQ==\n"
PkgReactAnyVersionBase64 ==
    "eyJkZXBlbmRlbmNpZXMiOnsicmVhY3QiOiIiLCJuZXh0IjoiMTMuNC4wIn19\n"
PkgNoDepsBase64 == "eyJuYW1lIjoiYXBwIn0=\n"
PkgNullBase64 == "bnVsbA==\n"
PkgNumberBase64 == "NDI=\n"
PkgMalformedBase64 == "eyJkZXBlbmRlbmNpZXMiOg==\n"
ReqDjangoBase64 == "ZGphbmdvPT00LjIKcGFuZGFzCg==\n"
ReqFlaskUpperBase64 == "Rmxhc2s9PTIuMwo=\n"

ContentOk(base64) == HttpOk([content |-> Some(base64)])

\* answers to a contents request that getFileContent cannot turn into text:
\* a 404, a body without content, content that is no base64
FailedContentResponses ==
    { HttpError("Not Found"),
      HttpOk([content |-> Null]),
      ContentOk("%%%not-base64%%%") }

PackageJsonResponses ==
    { ContentOk(PkgReactNextBase64), ContentOk(PkgDevReactNextBase64),
      ContentOk(PkgNextExpressMobxBase64), ContentOk(PkgReactAnyVersionBase64),
      ContentOk(PkgNoDepsBase64), ContentOk(PkgNullBase64),
      ContentOk(PkgNumberBase64), ContentOk(PkgMalformedBase64) }
    \cup FailedContentResponses

RequirementsResponses ==
    { ContentOk(ReqDjangoBase64), ContentOk(ReqFlaskUpperBase64), HttpError("Not Found") }

\* answers that make one of the three fetches of analyzeRepository fail
FailedFetchResponses == { HttpError("Not Found"), NetworkError }

(***************************************************************************)
(* The state.                                                              *)
(***************************************************************************)
VARIABLES
    repository,       \* App: Null or Some(repository)
    techStack,        \* App: Null or Some(technology stack)
    files,            \* App: the listing array
    generatedReadme,  \* App: the document
    isAnalyzing,      \* App
    error,            \* App: Null or Some(message)
    pc,               \* where handleAnalyze waits: "idle", "await_all",
                      \*   "await_package", "await_requirements"
    urlParts,         \* Null before the first analysis, then Some(r) with r
                      \*   the result of parseGitHubUrl in the latest one
    fetchLog,         \* the API paths the latest analysis has requested
    failedFetches,    \* which of its three first fetches failed
    fetched,          \* Null, or Some of what its Promise.all resolved to,
                      \*   the listing as the API delivered it
    labels,           \* the four lists detectTechnologies is filling
    contentCalls,     \* its getFileContent calls: path, response, result
    funCall,          \* a function of the services called on its own: its
                      \*   name and its arguments, Null when none is
    funResult,        \* Null, or Some of what that call returned
    passes,           \* two analyzeRepository calls in flight at once: the
                      \*   record of each, <<>> when there are none
    form              \* RepoAnalyzer: its url and isValidUrl, as they were
                      \*   last while App renders the document instead

appVars == <<repository, techStack, files, generatedReadme, isAnalyzing, error>>
aloneVars == <<funCall, funResult, passes>>
vars == <<repository, techStack, files, generatedReadme, isAnalyzing, error,
          pc, urlParts, fetchLog, failedFetches, fetched, labels, contentCalls,
          funCall, funResult, passes, form>>

\* RepoAnalyzer as it is mounted: useState('') and useState(true)
FreshForm == [url |-> "", isValidUrl |-> TRUE]

\* App as it is mounted, no analysis made
AppInit ==
    /\ repository = Null
    /\ techStack = Null
    /\ files = <<>>
    /\ generatedReadme = ""
    /\ isAnalyzing = FALSE
    /\ error = Null
    /\ pc = "idle"
    /\ urlParts = Null
    /\ fetchLog = <<>>
    /\ failedFetches = {}
    /\ fetched = Null
    /\ labels = NoLabels
    /\ contentCalls = <<>>
    /\ form = FreshForm

Init ==
    /\ AppInit
    /\ funCall = Null
    /\ funResult = Null
    /\ passes = <<>>

(***************************************************************************)
(* App.handleAnalyze, GitHubApiService.analyzeRepository                   *)
(***************************************************************************)
\* the catch block without its setError: the state is cleared silently
CatchWithoutSetError(message) ==
    /\ error' = error
    /\ repository' = Null
    /\ techStack' = Null
    /\ files' = <<>>
    /\ generatedReadme' = ""
    /\ isAnalyzing' = FALSE
    /\ pc' = "idle"

\* the catch and finally blocks of handleAnalyze, err an Error
CatchAndFinally(message) ==
    /\ error' = Some(message)
    /\ repository' = Null
    /\ techStack' = Null
    /\ files' = <<>>
    /\ generatedReadme' = ""
    /\ isAnalyzing' = FALSE
    /\ pc' = "idle"

\* a handleAnalyze whose success path does not reach setIsAnalyzing(false)
TryRestWithoutFinally(repo, listing, detected) ==
    LET readme == generateReadme(repo, detected, listing)
    IN  /\ repository' = Some(repo)
        /\ files' = SortFiles(listing)
        /\ techStack' = Some(detected)
        /\ generatedReadme' = ReplacePlaceholders(readme, repo)
        /\ error' = error
        /\ isAnalyzing' = isAnalyzing
        /\ pc' = "idle"

\* the rest of the try block of handleAnalyze once analyzeRepository has
\* resolved, and the finally block.  buildFileTree sorts the array it is
\* given, which is the array setFiles was given.
TryRestAndFinally(repo, listing, detected) ==
    LET readme == generateReadme(repo, detected, listing)
    IN  /\ repository' = Some(repo)
        /\ files' = SortFiles(listing)
        /\ techStack' = Some(detected)
        /\ generatedReadme' = ReplacePlaceholders(readme, repo)
        /\ error' = error
        /\ isAnalyzing' = FALSE
        /\ pc' = "idle"

ApiPath(parts, rest) == "/repos/" \o parts.owner \o "/" \o parts.repo \o rest

\* analyzeRepository with the three fetches started before urlParts is
\* tested: a rejected URL is asked for as undefined/undefined
AnalyzeRequestsBeforeTest(parts) ==
    LET p == IF IsNull(parts) THEN [owner |-> "undefined", repo |-> "undefined"]
             ELSE Val(parts)
    IN  << ApiPath(p, ""), ApiPath(p, "/contents/"), ApiPath(p, "/languages") >>

\* the requests analyzeRepository makes before its first await: none when
\* parseGitHubUrl has returned null, for the throw comes first
AnalyzeRequests(parts) ==
    IF IsNull(parts) THEN <<>>
    ELSE << ApiPath(Val(parts), ""),
            ApiPath(Val(parts), "/contents/"),
            ApiPath(Val(parts), "/languages") >>

\* handleAnalyze(url), up to the await of Promise.all; an invalid URL makes
\* analyzeRepository reject at once, and the catch block runs in the same task
HandleAnalyze(url) ==
    /\ pc = "idle"
    /\ ~isAnalyzing
    /\ IsNull(repository)
    /\ LET parts == parseGitHubUrl(url)
       IN  /\ urlParts' = Some(parts)
           /\ failedFetches' = {}
           /\ fetched' = Null
           /\ labels' = NoLabels
           /\ contentCalls' = <<>>
           /\ fetchLog' = AnalyzeRequests(parts)
           /\ IF IsNull(parts)
              THEN CatchAndFinally("Invalid GitHub repository URL")
              ELSE /\ isAnalyzing' = TRUE
                   /\ error' = Null
                   /\ pc' = "await_all"
                   /\ UNCHANGED <<repository, techStack, files, generatedReadme>>
    /\ UNCHANGED aloneVars

\* Promise.all rejects: some of the three fetches failed, resp the answer of
\* the one that failed first
PromiseAllRejected(failed, resp) ==
    /\ pc = "await_all"
    /\ failed # {}
    /\ failedFetches' = failed
    /\ CatchAndFinally("Failed to analyze repository: " \o fetchGitHub(resp).message)
    /\ UNCHANGED <<urlParts, fetchLog, fetched, labels, contentCalls, funCall, funResult, passes, form>>

(***************************************************************************)
(* detectTechnologies as it runs inside handleAnalyze: from one await to   *)
(* the next.  A step of it is [pc, labels, fetchLog]: where it waits next  *)
(* ("idle" when it has returned), its lists, and the requests made.        *)
(***************************************************************************)
\* from the Python rules on, the lists being d
DetectFromPython(listing, d, log, parts) ==
    LET fileNames == LowerNames(listing)
    IN  IF HasPythonManifest(fileNames)
        THEN IF ArrIncludes(fileNames, "requirements.txt")
             THEN [pc       |-> "await_requirements",
                   labels   |-> PythonPip(d),
                   fetchLog |-> Append(log, ApiPath(parts, "/contents/requirements.txt"))]
             ELSE [pc       |-> "idle",
                   labels   |-> ListingRules(PythonStage(PythonPip(d), Return("")), listing),
                   fetchLog |-> log]
        ELSE [pc |-> "idle", labels |-> ListingRules(d, listing), fetchLog |-> log]

\* detectTechnologies asking for package.json whatever the listing holds
DetectFromStartAlwaysFetching(listing, log, parts) ==
    [pc       |-> "await_package",
     labels   |-> NoLabels,
     fetchLog |-> Append(log, ApiPath(parts, "/contents/package.json"))]

\* from its first statement on
DetectFromStart(listing, log, parts) ==
    IF ArrIncludes(LowerNames(listing), "package.json")
    THEN [pc       |-> "await_package",
          labels   |-> NoLabels,
          fetchLog |-> Append(log, ApiPath(parts, "/contents/package.json"))]
    ELSE DetectFromPython(listing, NoLabels, log, parts)

\* the state after the step st; when detectTechnologies has returned,
\* analyzeRepository resolves and handleAnalyze runs to its end
Proceed(st, repo, listing, languages) ==
    /\ labels' = st.labels
    /\ fetchLog' = st.fetchLog
    /\ IF st.pc = "idle"
       THEN TryRestAndFinally(repo, listing, TechStackOf(languages, st.labels))
       ELSE /\ pc' = st.pc
            /\ UNCHANGED appVars

\* Promise.all resolves with the repository, the root listing and the
\* language map
PromiseAllResolved(repo, listing, languages) ==
    /\ pc = "await_all"
    /\ fetched' = Some([repo |-> repo, files |-> listing, languages |-> languages])
    /\ Proceed(DetectFromStart(listing, fetchLog, Val(Val(urlParts))), repo, listing, languages)
    /\ UNCHANGED <<urlParts, failedFetches, contentCalls, funCall, funResult, passes, form>>

\* the request for package.json is answered
PackageJsonFetched(resp) ==
    /\ pc = "await_package"
    /\ LET f       == Val(fetched)
           content == getFileContent(resp)
           d       == PackageJsonStage(labels, content)
       IN  /\ contentCalls' = Append(contentCalls,
                 [path |-> "package.json", response |-> resp, result |-> content])
           /\ Proceed(DetectFromPython(f.files, d, fetchLog, Val(Val(urlParts))),
                      f.repo, f.files, f.languages)
    /\ UNCHANGED <<urlParts, failedFetches, fetched, funCall, funResult, passes, form>>

\* the request for requirements.txt is answered
RequirementsFetched(resp) ==
    /\ pc = "await_requirements"
    /\ LET f       == Val(fetched)
           content == getFileContent(resp)
           d       == ListingRules(PythonStage(labels, content), f.files)
       IN  /\ contentCalls' = Append(contentCalls,
                 [path |-> "requirements.txt", response |-> resp, result |-> content])
           /\ Proceed([pc |-> "idle", labels |-> d, fetchLog |-> fetchLog],
                      f.repo, f.files, f.languages)
    /\ UNCHANGED <<urlParts, failedFetches, fetched, funCall, funResult, passes, form>>

(***************************************************************************)
(* App.handleReset: the New Project button, rendered with a document.      *)
(* The record of the call that produced the document goes with it, and     *)
(* App renders RepoAnalyzer again, which is mounted anew.                  *)
(***************************************************************************)
\* a handleReset without setFiles([])
HandleResetKeepingFiles ==
    /\ generatedReadme # ""
    /\ repository' = Null
    /\ techStack' = Null
    /\ files' = files
    /\ generatedReadme' = ""
    /\ error' = Null
    /\ urlParts' = Null
    /\ fetchLog' = <<>>
    /\ fetched' = Null
    /\ labels' = NoLabels
    /\ contentCalls' = <<>>
    /\ form' = FreshForm
    /\ UNCHANGED <<isAnalyzing, pc, failedFetches, funCall, funResult, passes>>

HandleReset ==
    /\ generatedReadme # ""
    /\ repository' = Null
    /\ techStack' = Null
    /\ files' = <<>>
    /\ generatedReadme' = ""
    /\ error' = Null
    /\ urlParts' = Null
    /\ fetchLog' = <<>>
    /\ fetched' = Null
    /\ labels' = NoLabels
    /\ contentCalls' = <<>>
    /\ form' = FreshForm
    /\ UNCHANGED <<isAnalyzing, pc, failedFetches, funCall, funResult, passes>>

Next ==
    \/ pc = "idle" /\ \E url \in Urls : HandleAnalyze(url) /\ UNCHANGED form
    \/ pc = "await_all"
         /\ \E failed \in SUBSET {"repository", "contents", "languages"} :
              \E resp \in FailedFetchResponses : PromiseAllRejected(failed, resp)
    \/ pc = "await_all"
         /\ \E repo \in Repos : \E listing \in Listings : \E languages \in LanguagesOf(repo) :
              PromiseAllResolved(repo, listing, languages)
    \/ pc = "await_package" /\ \E resp \in PackageJsonResponses : PackageJsonFetched(resp)
    \/ pc = "await_requirements"
         /\ \E resp \in RequirementsResponses : RequirementsFetched(resp)
    \/ HandleReset

Spec == Init /\ [][Next]_vars

\* a step taken while handleAnalyze awaits: the fetch it awaits resolves or
\* rejects, and handleAnalyze goes on to its next await or to its end
FetchesSettle ==
    /\ pc # "idle"
    /\ pc' \in {"idle", "await_package", "await_requirements"} \ {pc}

\* App with every awaited fetch settling in the end
LiveSpec == Spec /\ WF_pc(FetchesSettle)

(***************************************************************************)
(* RepoAnalyzer: the form App renders while repository is null. Its        *)
(* onAnalyze is handleAnalyze of App.                                      *)
(***************************************************************************)
\* the position after "http://" or "https://" at the start of s, 0 when s
\* starts with neither: what ^https?:\/\/ consumes
AfterScheme(s) ==
    IF StartsWithAt(s, "https://", 1) THEN 9
    ELSE IF StartsWithAt(s, "http://", 1) THEN 8
    ELSE 0

\* github\.com\/[^\/]+\/[^\/]+\/?$ matches s from position i to its end
RepoPathMatchesAt(s, i) ==
    LET a == NonSlashRun(s, i + 11)
        b == NonSlashRun(s, i + 12 + a)
        e == i + 12 + a + b
    IN  /\ StartsWithAt(s, "github.com/", i)
        /\ a >= 1
        /\ StartsWithAt(s, "/", i + 11 + a)
        /\ b >= 1
        /\ \/ e = Len(s) + 1
           \/ e = Len(s) /\ SubSeq(s, e, e) = "/"

\* githubRegex.test(url.trim())
validateGitHubUrl(url) ==
    LET s == Trim(url)
        i == AfterScheme(s)
    IN  /\ i > 0
        /\ \/ RepoPathMatchesAt(s, i)
           \/ StartsWithAt(s, "www.", i) /\ RepoPathMatchesAt(s, i + 4)

exampleRepos ==
    << "https://github.com/facebook/react",
       "https://github.com/microsoft/vscode",
       "https://github.com/vercel/next.js",
       "https://github.com/tailwindlabs/tailwindcss" >>

\* what the user leaves in the input after an edit. The input has
\* type="url", for which the browser strips white space at both ends
TypedUrls ==
    { "",
      "github",
      "https://github.com/acme",
      "https://github.com/acme/app",
      "http://www.github.com/acme/app/" }

\* App renders RepoAnalyzer
FormRendered == IsNull(repository)

\* the message under the input is rendered
ValidationErrorShown == ~form.isValidUrl /\ form.url # ""

\* the submit button is not disabled
SubmitEnabled == ~(isAnalyzing \/ form.url = "" \/ ~form.isValidUrl)

\* the input is edited, newUrl its new value; it is disabled while
\* isAnalyzing
HandleUrlChange(newUrl) ==
    /\ FormRendered
    /\ ~isAnalyzing
    /\ form' = [url        |-> newUrl,
                isValidUrl |-> ~(newUrl # "" /\ ~validateGitHubUrl(newUrl))]
    /\ UNCHANGED <<appVars, pc, urlParts, fetchLog, failedFetches, fetched, labels,
                   contentCalls, funCall, funResult, passes>>

\* the button of exampleRepos[index] is clicked: setUrl(repo), and nothing
\* else; the buttons are disabled while isAnalyzing
ExampleClick(index) ==
    /\ FormRendered
    /\ ~isAnalyzing
    /\ form' = [form EXCEPT !.url = exampleRepos[index]]
    /\ UNCHANGED <<appVars, pc, urlParts, fetchLog, failedFetches, fetched, labels,
                   contentCalls, funCall, funResult, passes>>

\* the form is submitted, by its button or by Enter in the input, either of
\* which the disabled button rules out; handleAnalyze runs in the same task
\* up to its first await
HandleSubmit ==
    /\ FormRendered
    /\ SubmitEnabled
    /\ LET trimmedUrl == Trim(form.url)
       IN  IF trimmedUrl = ""
           THEN UNCHANGED vars
           ELSE IF ~validateGitHubUrl(trimmedUrl)
           THEN /\ form' = [form EXCEPT !.isValidUrl = FALSE]
                /\ UNCHANGED <<appVars, pc, urlParts, fetchLog, failedFetches, fetched,
                               labels, contentCalls, funCall, funResult, passes>>
           ELSE /\ form' = [form EXCEPT !.isValidUrl = TRUE]
                /\ HandleAnalyze(trimmedUrl)

\* what the API answers with in FormSpec: one repository, a root listing
\* with either manifest, with both or with none, and each manifest present
\* or missing
FormRepos == { RepoPlain }

FormListings ==
    { << RootEntry("package.json", "file"), RootEntry("requirements.txt", "file") >>,
      << RootEntry("requirements.txt", "file") >>,
      << RootEntry("package.json", "file") >>,
      << RootEntry("Dockerfile", "file") >> }

FormPackageJsonResponses == { ContentOk(PkgReactNextBase64), HttpError("Not Found") }

FormRequirementsResponses == { ContentOk(ReqDjangoBase64), HttpError("Not Found") }

\* App used through its form: the user edits the input, clicks the example
\* buttons and submits, the fetches of the analysis settle, and the New
\* Project button brings the form back
FormNext ==
    \/ \E newUrl \in TypedUrls : HandleUrlChange(newUrl)
    \/ \E index \in DOMAIN exampleRepos : ExampleClick(index)
    \/ HandleSubmit
    \/ pc = "await_all"
         /\ \E resp \in FailedFetchResponses : PromiseAllRejected({"repository"}, resp)
    \/ pc = "await_all"
         /\ \E repo \in FormRepos : \E listing \in FormListings :
              \E languages \in LanguagesOf(repo) :
                PromiseAllResolved(repo, listing, languages)
    \/ pc = "await_package"
         /\ \E resp \in FormPackageJsonResponses : PackageJsonFetched(resp)
    \/ pc = "await_requirements"
         /\ \E resp \in FormRequirementsResponses : RequirementsFetched(resp)
    \/ HandleReset

FormSpec == Init /\ [][FormNext]_vars

(***************************************************************************)
(* The functions of the services called on their own, each on arguments    *)
(* drawn from a bounded set: funCall is the call, funResult what it        *)
(* returned.                                                               *)
(***************************************************************************)
\* a language map of GitHub: at most MaxLanguages languages, each with a
\* positive number of bytes, the keys in any order
LanguageNames == {"TypeScript", "JavaScript", "CSS", "Go"}
ByteCounts == {1, 2, 7, 200, 800, 1993}
LanguageMapsAlone ==
    UNION { { m \in [1..n -> [name : LanguageNames, bytes : ByteCounts]] :
                \A i, j \in 1..n : i # j => m[i].name # m[j].name } :
            n \in 0..MaxLanguages }

TechStackCalls ==
    { [fn |-> "generateTechStack",
       techStack |-> [languages |-> m, frameworks |-> <<>>, tools |-> <<>>,
                      databases |-> <<>>, deployment |-> <<>>]] :
      m \in LanguageMapsAlone }

BuildFileTreeCalls == { [fn |-> "buildFileTree", files |-> l] : l \in Listings }

EmptyProfile ==
    [languages |-> <<>>, frameworks |-> <<>>, tools |-> <<>>, databases |-> <<>>,
     deployment |-> <<>>]

\* profiles detectTechnologies can return
ProfilesAlone ==
    { EmptyProfile,
      [EmptyProfile EXCEPT !.languages = <<[name |-> "TypeScript", bytes |-> 800]>>,
                           !.frameworks = <<"React", "Express">>,
                           !.tools = <<"TypeScript">>],
      [EmptyProfile EXCEPT !.languages = <<[name |-> "Python", bytes |-> 200]>>,
                           !.frameworks = <<"Django">>,
                           !.databases = <<"PostgreSQL">>],
      [EmptyProfile EXCEPT !.frameworks = <<"React", "Next.js">>,
                           !.deployment = <<"Docker">>] }

\* listings whose manifest name is not in lower case
MixedCaseListings ==
    { << RootEntry("Package.JSON", "file") >>,
      << RootEntry("ROUTES", "dir"), RootEntry("PACKAGE.JSON", "file") >> }

\* documents with no, one and several placeholder tokens
PlaceholderDocuments ==
    { "## Installation",
      "git clone REPO_URL\ncd REPO_NAME",
      "git clone REPO_URL\ncd REPO_NAME\nopen REPO_URL\nls REPO_NAME",
      "REPO_NAMEREPO_NAME REPO_URLREPO_URL",
      "REPO_URL/REPO_NAME/REPO_URL",
      "cd REPO_NAME && ls REPO_NAME/REPO_NAME" }

ResolveCalls ==
    { [fn |-> "resolve", readme |-> d, repo |-> r] : d \in PlaceholderDocuments, r \in Repos }

\* root listings without a manifest, the same names in two letter cases
CaseListings ==
    { << RootEntry("schema.sql", "file") >>,     << RootEntry("SCHEMA.SQL", "file") >>,
      << RootEntry("app.sln", "file") >>,        << RootEntry("App.SLN", "file") >>,
      << RootEntry("web.csproj", "file") >>,     << RootEntry("Web.CSPROJ", "file") >>,
      << RootEntry("dockerfile", "file") >>,     << RootEntry("Dockerfile", "file") >>,
      << RootEntry("pom.xml", "file") >>,        << RootEntry("POM.XML", "file") >>,
      << RootEntry("jenkinsfile", "file"), RootEntry("tsconfig.json", "file") >>,
      << RootEntry("Jenkinsfile", "file"), RootEntry("TSConfig.json", "file") >>,
      << RootEntry(".github", "dir") >>,         << RootEntry(".GitHub", "dir") >> }

DetectTechnologiesCalls ==
    { [fn |-> "detectTechnologies", owner |-> "acme", repo |-> "app", files |-> l,
       languages |-> m] : l \in CaseListings, m \in LanguageMaps }

\* repository sizes in KB, written n * 1024^shift with shift up to MaxSizeShift
SizeMantissas == {0, 1, 2, 500, 1023, 1024, 1536, 4000}
FormatBytesCalls ==
    { [fn |-> "formatBytes", n |-> n, shift |-> k] :
      n \in SizeMantissas, k \in 0..MaxSizeShift }

GenerateReadmeCalls ==
    { [fn |-> "generateReadme", repository |-> r, techStack |-> t, files |-> l] :
      r \in Repos, t \in ProfilesAlone, l \in Listings \cup MixedCaseListings }

AloneInit ==
    /\ AppInit
    /\ passes = <<>>
    /\ funResult = Null
    /\ \/ funCall \in {Some(c) : c \in TechStackCalls}
       \/ funCall \in {Some(c) : c \in BuildFileTreeCalls}
       \/ funCall \in {Some(c) : c \in GenerateReadmeCalls}
       \/ funCall \in {Some(c) : c \in ResolveCalls}
       \/ funCall \in {Some(c) : c \in FormatBytesCalls}
       \/ funCall \in {Some(c) : c \in DetectTechnologiesCalls}

\* the call named fn is made and has not returned
Calling(fn) == funCall # Null /\ funResult = Null /\ Val(funCall).fn = fn

\* the call returns value
Returning(value) ==
    /\ funResult' = Some(value)
    /\ UNCHANGED <<appVars, pc, urlParts, fetchLog, failedFetches, fetched, labels,
                   contentCalls, funCall, passes, form>>

CallGenerateTechStack ==
    /\ Calling("generateTechStack")
    /\ Returning(generateTechStack(Val(funCall).techStack))

CallBuildFileTree ==
    /\ Calling("buildFileTree")
    /\ Returning(buildFileTree(Val(funCall).files))

CallGenerateReadme ==
    /\ Calling("generateReadme")
    /\ Returning(generateReadme(Val(funCall).repository, Val(funCall).techStack,
                                Val(funCall).files))

\* the two replace calls of handleAnalyze
CallResolve ==
    /\ Calling("resolve")
    /\ Returning(ReplacePlaceholders(Val(funCall).readme, Val(funCall).repo))

\* detectTechnologies on a listing without a manifest: it makes no request
\* and returns in the task it was called in
CallDetectTechnologies ==
    /\ Calling("detectTechnologies")
    /\ LET c  == Val(funCall)
           st == DetectFromStart(c.files, <<>>, [owner |-> c.owner, repo |-> c.repo])
       IN  /\ st.pc = "idle"
           /\ Returning(TechStackOf(c.languages, st.labels))

\* formatBytes(repository.size * 1024) of generateDescription, the size
\* being n * 1024^shift KB
CallFormatBytes ==
    /\ Calling("formatBytes")
    /\ Returning(formatBytesScaled(Val(funCall).n, Val(funCall).shift + 1))

AloneNext ==
    \/ CallGenerateTechStack
    \/ CallBuildFileTree
    \/ CallGenerateReadme
    \/ CallResolve
    \/ CallFormatBytes
    \/ CallDetectTechnologies

AloneSpec == AloneInit /\ [][AloneNext]_vars

(***************************************************************************)
(* Two analysis passes on one GitHubApiService and one ReadmeGenerator,    *)
(* each the call analyzeRepository(url) followed by generateReadme and the *)
(* placeholder replacement, interleaved at the awaits.  Neither class has  *)
(* a field; the lists of detectTechnologies are a const of the call.  A    *)
(* pass is a record of the call's locals and of the answers it was given.  *)
(***************************************************************************)
PassIds == {1, 2}

\* the two passes are for different repositories
PassUrls == << "https://github.com/acme/my-app", "https://github.com/acme/env_tools.git" >>
PassRepos == << RepoPlain, RepoDescribingPlaceholder >>

PassListings ==
    { << RootEntry("package.json", "file"), RootEntry("requirements.txt", "file") >>,
      << RootEntry("requirements.txt", "file"), RootEntry("src", "dir") >>,
      << RootEntry("package.json", "file") >>,
      << RootEntry("Dockerfile", "file") >> }

PassPackageJsonResponses ==
    { ContentOk(PkgReactNextBase64), ContentOk(PkgMalformedBase64), HttpError("Not Found") }

PassRequirementsResponses == { ContentOk(ReqDjangoBase64), HttpError("Not Found") }

FreshPass ==
    [pc |-> "start", parts |-> Null, repo |-> Null, files |-> <<>>, languages |-> <<>>,
     labels |-> NoLabels, fetchLog |-> <<>>, package |-> Null, requirements |-> Null,
     result |-> Null]

PassesInit ==
    /\ AppInit
    /\ funCall = Null
    /\ funResult = Null
    /\ passes = [p \in PassIds |-> FreshPass]

\* a service that keeps the lists in a field: every pass reads those of pass 1
LabelsOfFirstPass(ps, p) == ps[1].labels

\* the lists pass p of ps reads: those of its own call of detectTechnologies
LabelsOf(ps, p) == ps[p].labels

\* what a pass hands back: the profile analyzeRepository resolved with and
\* the document made of it
PassResult(repo, profile, listing) ==
    [profile  |-> profile,
     document |-> ReplacePlaceholders(generateReadme(repo, profile, listing), repo)]

\* pass f after the step st of detectTechnologies
PassAfter(f, st) ==
    IF st.pc = "idle"
    THEN [f EXCEPT !.pc = "done", !.labels = st.labels, !.fetchLog = st.fetchLog,
                   !.result = Some(PassResult(Val(f.repo),
                                              TechStackOf(f.languages, st.labels), f.files))]
    ELSE [f EXCEPT !.pc = st.pc, !.labels = st.labels, !.fetchLog = st.fetchLog]

PassStep(p, f) ==
    /\ passes' = [passes EXCEPT ![p] = f]
    /\ UNCHANGED <<appVars, pc, urlParts, fetchLog, failedFetches, fetched, labels,
                   contentCalls, funCall, funResult, form>>

\* analyzeRepository(url) up to the await of Promise.all
PassStart(p) ==
    /\ passes[p].pc = "start"
    /\ LET parts == parseGitHubUrl(PassUrls[p])
       IN  PassStep(p, [passes[p] EXCEPT !.pc = "await_all", !.parts = parts,
                                         !.fetchLog = AnalyzeRequests(parts)])

\* Promise.all of pass p resolves
PassAllResolved(p, listing, languages) ==
    /\ passes[p].pc = "await_all"
    /\ LET f == [passes[p] EXCEPT !.repo = Some(PassRepos[p]), !.files = listing,
                                  !.languages = languages]
       IN  PassStep(p, PassAfter(f, DetectFromStart(listing, f.fetchLog, Val(f.parts))))

\* the request of pass p for package.json is answered
PassPackageJsonFetched(p, resp) ==
    /\ passes[p].pc = "await_package"
    /\ LET f == [passes[p] EXCEPT !.package = Some(resp)]
           d == PackageJsonStage(LabelsOf(passes, p), getFileContent(resp))
       IN  PassStep(p, PassAfter(f, DetectFromPython(f.files, d, f.fetchLog, Val(f.parts))))

\* the request of pass p for requirements.txt is answered
PassRequirementsFetched(p, resp) ==
    /\ passes[p].pc = "await_requirements"
    /\ LET f == [passes[p] EXCEPT !.requirements = Some(resp)]
           d == ListingRules(PythonStage(LabelsOf(passes, p), getFileContent(resp)), f.files)
       IN  PassStep(p, PassAfter(f, [pc |-> "idle", labels |-> d, fetchLog |-> f.fetchLog]))

PassesNext ==
    \/ \E p \in PassIds : PassStart(p)
    \/ \E p \in PassIds : \E listing \in PassListings :
         \E languages \in LanguagesOf(PassRepos[p]) :
           PassAllResolved(p, listing, languages)
    \/ \E p \in PassIds : \E resp \in PassPackageJsonResponses : PassPackageJsonFetched(p, resp)
    \/ \E p \in PassIds : \E resp \in PassRequirementsResponses :
           PassRequirementsFetched(p, resp)

PassesSpec == PassesInit /\ [][PassesNext]_vars

(***************************************************************************)
(* Properties.                                                             *)
(* After a successful analysis, and until the next one starts, fetched is  *)
(* what Promise.all delivered, labels the four lists before deduplication, *)
(* contentCalls the getFileContent calls of detectTechnologies.            *)
(***************************************************************************)
\* how often pat occurs in s
CountOf(s, pat) == Cardinality(Occurrences(s, pat))

\* the lower-cased names of the listing of the analysis on display
ShownNames == LowerNames(files)

\* a document is on display: the latest analysis succeeded, no reset since
Shown == generatedReadme # ""

\* the text getFileContent returned for package.json, if it was called
ManifestCalled == contentCalls # <<>> /\ contentCalls[1].path = "package.json"
ManifestText == contentCalls[1].result.value

\* C1: after the placeholder replacement the document contains neither the
\* text REPO_URL nor the text REPO_NAME, whatever the repository's clone_url,
\* name and description are.
C1_NoPlaceholderLeft ==
    /\ ~Includes(generatedReadme, "REPO_URL")
    /\ ~Includes(generatedReadme, "REPO_NAME")

\* C2: when any of the three first fetches has failed, handleAnalyze ends
\* with an error message and with the repository, the technology stack, the
\* listing and the document cleared.
C2_FailedFetchClearsState ==
    failedFetches # {} =>
        /\ pc = "idle"
        /\ ~isAnalyzing
        /\ error # Null
        /\ repository = Null
        /\ techStack = Null
        /\ files = <<>>
        /\ generatedReadme = ""

C2_Witness ==
    /\ failedFetches = {"contents"}
    /\ error = Some("Failed to analyze repository: GitHub API error: Not Found")
    /\ ~isAnalyzing

\* C3: an analysis of a URL parseGitHubUrl rejects ends with the
\* invalid-repository error and has made no request.
C3_InvalidUrlFailsBeforeFetch ==
    urlParts = Some(Null) =>
        /\ error = Some("Invalid GitHub repository URL")
        /\ fetchLog = <<>>
        /\ pc = "idle"

C3_Witness ==
    /\ urlParts = Some(Null)
    /\ error = Some("Invalid GitHub repository URL")
    /\ ~isAnalyzing

\* the manifest text is empty, is no JSON, or is the JSON null
ManifestUnusable(text) ==
    \/ text = ""
    \/ JSON_parse(text).threw
    \/ JSON_parse(text) = Return(JNull)

\* the lists as the rule groups after the package.json rules fill them when
\* they start from empty lists
LaterGroupsAlone ==
    LET listing   == Val(fetched).files
        python    == HasPythonManifest(LowerNames(listing))
        pip       == IF python THEN PythonPip(NoLabels) ELSE NoLabels
        pythonDeps == IF Len(contentCalls) = 2 THEN contentCalls[2].result
                      ELSE Return("")
    IN  IF pc = "await_requirements" THEN pip
        ELSE ListingRules(IF python THEN PythonStage(pip, pythonDeps) ELSE pip, listing)

\* C4: when the content of package.json is empty, unparseable or null, the
\* package.json rules add no label and raise nothing: the later rule groups
\* run as they would from empty lists, and the profile is returned.
C4_UnusableManifestAddsNothing ==
    ManifestCalled /\ ManifestUnusable(ManifestText) =>
        /\ labels = LaterGroupsAlone
        /\ error = Null
        /\ pc \in {"await_requirements", "idle"}
        /\ repository # Null =>
               techStack = Some(TechStackOf(Val(fetched).languages, labels))

C4_Witness ==
    /\ ManifestCalled
    /\ ManifestText = PkgNull
    /\ techStack # Null
    /\ Val(techStack).deployment = <<"Docker">>
    /\ Val(techStack).frameworks = <<>>

\* C5: getFileContent never throws, and returns the empty text for every
\* answer it cannot turn into text.
C5_GetFileContentNeverThrows ==
    \A i \in DOMAIN contentCalls :
        /\ ~contentCalls[i].result.threw
        /\ contentCalls[i].response \in FailedContentResponses =>
               contentCalls[i].result.value = ""

C5_Witness ==
    /\ contentCalls # <<>>
    /\ contentCalls[1].response = ContentOk("%%%not-base64%%%")
    /\ contentCalls[1].result = Return("")

\* the index of the first occurrence of x in xs
FirstIndex(xs, x) == CHOOSE i \in DOMAIN xs : xs[i] = x /\ \A j \in 1..(i - 1) : xs[j] # x

\* out is raw without its duplicates, in the order of first detection
FirstDetectionOrder(raw, out) ==
    /\ {out[i] : i \in DOMAIN out} = {raw[i] : i \in DOMAIN raw}
    /\ \A i, j \in DOMAIN out : i # j => out[i] # out[j]
    /\ \A i, j \in DOMAIN out :
           i < j => FirstIndex(raw, out[i]) < FirstIndex(raw, out[j])

\* C6: each of frameworks, tools, databases and deployment of the profile
\* has no duplicates and keeps the order of first detection, and
\* deduplicating it again changes nothing.
C6_ListsDeduplicatedInOrder ==
    techStack # Null =>
        LET t == Val(techStack)
        IN  /\ FirstDetectionOrder(labels.frameworks, t.frameworks)
            /\ FirstDetectionOrder(labels.tools, t.tools)
            /\ FirstDetectionOrder(labels.databases, t.databases)
            /\ FirstDetectionOrder(labels.deployment, t.deployment)
            /\ Dedup(t.frameworks) = t.frameworks
            /\ Dedup(t.tools) = t.tools
            /\ Dedup(t.databases) = t.databases
            /\ Dedup(t.deployment) = t.deployment

C6_Witness ==
    /\ techStack # Null
    /\ labels.frameworks = <<"React", "Next.js", "Express.js", "Next.js">>
    /\ Val(techStack).frameworks = <<"React", "Next.js", "Express.js">>

\* the names the rules of detectTechnologies test for, and the endings
RecognizedNames ==
    { "package.json", "requirements.txt", "pyproject.toml", "pipfile", "pom.xml",
      "build.gradle", "go.mod", "cargo.toml", "dockerfile", "docker-compose.yml",
      "docker-compose.yaml", ".travis.yml", "jenkinsfile", ".gitlab-ci.yml",
      "tsconfig.json", "tailwind.config.js", "tailwind.config.ts", "next.config.js",
      "nuxt.config.js", "vue.config.js", "angular.json", "schema.prisma" }

Recognized(f) ==
    \/ ToLowerCase(f.name) \in RecognizedNames
    \/ \E ending \in {".csproj", ".sln", ".sql"} : EndsWith(f.name, ending)
    \/ Includes(f.path, ".github/workflows")

\* C7: for a listing without any recognized manifest, configuration file or
\* marker the four lists are empty, the language map is the one GitHub
\* delivered, and no manifest was asked for.
C7_NothingRecognizedNothingDetected ==
    techStack # Null /\ (\A i \in DOMAIN files : ~Recognized(files[i])) =>
        LET t == Val(techStack)
        IN  /\ t.frameworks = <<>> /\ t.tools = <<>>
            /\ t.databases = <<>> /\ t.deployment = <<>>
            /\ t.languages = Val(fetched).languages
            /\ contentCalls = <<>>
            /\ Len(fetchLog) = 3

C7_Witness ==
    /\ techStack # Null
    /\ Val(fetched).files = << RootEntry("README.md", "file"), RootEntry("src", "dir") >>
    /\ Val(techStack).frameworks = <<>>
    /\ Val(techStack).languages # <<>>

\* the manifest text is JSON that has key in dependencies or devDependencies
ManifestLists(text, key) ==
    LET pkg == JSON_parse(text)
    IN  /\ ~pkg.threw
        /\ pkg.value.type = "object"
        /\ \E section \in {"dependencies", "devDependencies"} :
               /\ section \in DOMAIN pkg.value.props
               /\ pkg.value.props[section].type = "object"
               /\ key \in DOMAIN pkg.value.props[section].props

\* C8: when package.json is valid JSON that lists react and next in
\* dependencies or devDependencies, frameworks holds "React" and "Next.js",
\* "React" first.
C8_ReactBeforeNext ==
    /\ techStack # Null
    /\ ManifestCalled
    /\ ManifestLists(ManifestText, "react")
    /\ ManifestLists(ManifestText, "next")
    => LET fw == Val(techStack).frameworks
       IN  \E i, j \in DOMAIN fw : i < j /\ fw[i] = "React" /\ fw[j] = "Next.js"

\* a line of each installation template that no other text of the document has
NodeMarker == "- Node.js (version 16 or higher)"
PythonMarker == "- Python 3.8 or higher"
JavaMarker == "- Java 11 or higher"
GenericMarker == "- Check the technology stack above for specific requirements"
TemplateMarkers == {NodeMarker, PythonMarker, JavaMarker, GenericMarker}

\* where the lines of s end
LineEnds(s) == {k \in 1..Len(s) : SubSeq(s, k, k) = "\n"}

\* how many lines of s, its first and its last aside, are the text line;
\* ends is LineEnds(s)
LineCount(s, ends, line) ==
    Cardinality({k \in ends : SubSeq(s, k + 1, k + Len(line) + 1) = line \o "\n"})

\* the document has the template of marker once and no other template
OnlyTemplate(marker) ==
    LET ends == LineEnds(generatedReadme)
        Lines(line) == LineCount(generatedReadme, ends, line)
    IN  /\ Lines(marker) = 1
        /\ \A other \in TemplateMarkers \ {marker} : Lines(other) = 0
        /\ Lines("## Installation") = 1
        /\ Lines("### Installation Steps") = 1

ShownHas(name) == ArrIncludes(ShownNames, name)

\* C9 as stated: without package.json and without a Python manifest
\* (requirements.txt, pyproject.toml) the Installation section is the generic
\* fallback, once, and no other template.
C9_GenericWithoutNodeOrPython ==
    Shown /\ ~ShownHas("package.json") /\ ~ShownHas("requirements.txt") /\ ~ShownHas("pyproject.toml")
        => OnlyTemplate(GenericMarker)

\* C9 amended: without package.json, without a Python manifest and without
\* pom.xml the Installation section is the generic fallback, once, and no
\* other template.
C9_GenericWithoutAnyManifest ==
    /\ Shown
    /\ ~ShownHas("package.json") /\ ~ShownHas("requirements.txt") /\ ~ShownHas("pyproject.toml")
    /\ ~ShownHas("pom.xml")
    => OnlyTemplate(GenericMarker)

C9_Witness ==
    /\ Shown
    /\ ShownNames = <<"src", "dockerfile">>
    /\ CountOf(generatedReadme, GenericMarker \o "\n") = 1

\* C10: the Installation section is exactly one of the four templates, the
\* first that applies of: package.json, a Python manifest (requirements.txt
\* or pyproject.toml), pom.xml, the generic fallback.
C10_OneTemplateByPriority ==
    Shown =>
        OnlyTemplate(IF ShownHas("package.json") THEN NodeMarker
                     ELSE IF ShownHas("requirements.txt") \/ ShownHas("pyproject.toml")
                     THEN PythonMarker
                     ELSE IF ShownHas("pom.xml") THEN JavaMarker
                     ELSE GenericMarker)

C10_Witness ==
    /\ Shown
    /\ ShownHas("package.json") /\ ShownHas("requirements.txt")
    /\ Includes(generatedReadme, NodeMarker)
    /\ ~Includes(generatedReadme, PythonMarker)

\* how many lines of s, its first aside, begin with prefix; ends is LineEnds(s)
LinePrefixCount(s, ends, prefix) ==
    Cardinality({k \in ends : SubSeq(s, k + 1, k + Len(prefix)) = prefix})

\* the bullets generateFeatures derives from the profile and the listing;
\* the database bullet ends with the database names
DerivedBullets ==
    { "Built with React for dynamic user interfaces",
      "Full TypeScript support for type safety",
      "Server-side rendering with Next.js",
      "Optimized for performance and SEO",
      "Responsive design with Tailwind CSS",
      "RESTful API with Express.js",
      "Docker containerization for easy deployment",
      "Automated CI/CD with GitHub Actions",
      "Comprehensive testing suite",
      "Environment-based configuration" }
DatabaseBulletPrefix == "Database integration with "

\* some feature signal fires for the profile and the listing on display
FeatureSignal ==
    LET t == Val(techStack)
    IN  \/ \E fw \in {"React", "Next.js", "Express.js"} : ArrIncludes(t.frameworks, fw)
        \/ ArrIncludes(t.tools, "Tailwind CSS")
        \/ t.databases # <<>>
        \/ ShownHas("dockerfile")
        \/ ShownHas(".env.example")
        \/ \E i \in DOMAIN files : Includes(files[i].path, ".github/workflows")
        \/ \E i \in DOMAIN ShownNames :
               Includes(ShownNames[i], "test") \/ Includes(ShownNames[i], "spec")

\* C11: the Features section holds the four fallback bullets if and only if
\* no feature signal fires; it is never empty and never holds a derived bullet
\* together with a fallback bullet.
C11_FallbackFeaturesIffNoSignal ==
    Shown =>
        LET ends       == LineEnds(generatedReadme)
            Lines(b)   == LineCount(generatedReadme, ends, b)
            fallback   == {i \in DOMAIN DefaultFeatures : Lines(DefaultFeatures[i]) > 0}
            derived    == {b \in DerivedBullets : Lines(b) > 0}
            database   == LinePrefixCount(generatedReadme, ends, DatabaseBulletPrefix) > 0
        IN  /\ fallback = DOMAIN DefaultFeatures <=> ~FeatureSignal
            /\ \A i \in fallback : Lines(DefaultFeatures[i]) = 1
            /\ fallback # {} \/ derived # {} \/ database
            /\ fallback # {} => derived = {} /\ ~database
            /\ fallback \in {{}, DOMAIN DefaultFeatures}

C11_Witness ==
    /\ Shown
    /\ ~FeatureSignal
    /\ ShownNames = <<"src", "pom.xml">>
    /\ LineCount(generatedReadme, LineEnds(generatedReadme), DefaultFeatures[1]) = 1
    /\ LineCount(generatedReadme, LineEnds(generatedReadme), DefaultFeatures[4]) = 1

RECURSIVE SplitLinesFrom(_, _)
SplitLinesFrom(s, i) ==
    LET j == IndexFrom(s, "\n", i)
    IN  IF j = 0 THEN <<SubSeq(s, i, Len(s))>>
        ELSE <<SubSeq(s, i, j - 1)>> \o SplitLinesFrom(s, j + 1)

\* the lines of the text s
SplitLines(s) == SplitLinesFrom(s, 1)

RECURSIVE DigitsValue(_)
\* the number a text of decimal digits writes, -1 if s is no such text
DigitsValue(s) ==
    IF Len(s) = 0 THEN 0
    ELSE LET d    == IndexFrom(Digits, SubSeq(s, Len(s), Len(s)), 1) - 1
             rest == DigitsValue(SubSeq(s, 1, Len(s) - 1))
         IN  IF d < 0 \/ rest < 0 THEN -1 ELSE 10 * rest + d

\* the tenths a text with exactly one decimal place writes ("80.0" is 800),
\* -1 if s is no such text
TenthsOf(s) ==
    IF Len(s) < 3 \/ SubSeq(s, Len(s) - 1, Len(s) - 1) # "." THEN -1
    ELSE LET whole == DigitsValue(SubSeq(s, 1, Len(s) - 2))
             tenth == DigitsValue(SubSeq(s, Len(s), Len(s)))
         IN  IF whole < 0 \/ tenth < 0 THEN -1 ELSE 10 * whole + tenth

\* line is the bullet of the language entry e of a map of total bytes: its
\* name, and its share of total as a percentage rounded to one decimal place
LanguageBullet(line, e, total) ==
    LET before == "- **" \o e.name \o "** ("
        tenths == TenthsOf(SubSeq(line, Len(before) + 1, Len(line) - 2))
    IN  /\ StartsWithAt(line, before, 1)
        /\ EndsWith(line, "%)")
        /\ tenths >= 0
        /\ 2 * (tenths * total - 1000 * e.bytes) <= total
        /\ 2 * (1000 * e.bytes - tenths * total) <= total

\* the language map generateTechStack was called with, and what it returned
CalledLanguages == Val(funCall).techStack.languages
TechStackLines == SplitLines(Val(funResult))

\* C12: for every non-empty language map the Programming Languages
\* subsection lists each language once, in descending order of bytes, with
\* its share of the total bytes as a percentage with one decimal place; for
\* TypeScript 800 and JavaScript 200 it is TypeScript (80.0%), then
\* JavaScript (20.0%).
C12_LanguagesByShare ==
    /\ funCall # Null /\ funResult # Null
    /\ Val(funCall).fn = "generateTechStack"
    /\ CalledLanguages # <<>>
    => LET m     == CalledLanguages
           total == SumBytes(m)
           lines == TechStackLines
           Entry(i) == CHOOSE k \in DOMAIN m : LanguageBullet(lines[3 + i], m[k], total)
       IN  /\ Len(lines) = 3 + Len(m)
           /\ lines[3] = "### Programming Languages"
           /\ \A i \in DOMAIN m : \E k \in DOMAIN m : LanguageBullet(lines[3 + i], m[k], total)
           /\ \A i, j \in DOMAIN m : i # j => Entry(i) # Entry(j)
           /\ \A i, j \in DOMAIN m : i < j => m[Entry(i)].bytes >= m[Entry(j)].bytes
           /\ {m[k] : k \in DOMAIN m} = { [name |-> "TypeScript", bytes |-> 800],
                                          [name |-> "JavaScript", bytes |-> 200] }
                => /\ lines[4] = "- **TypeScript** (80.0%)"
                   /\ lines[5] = "- **JavaScript** (20.0%)"

C12_Witness ==
    /\ funCall # Null /\ funResult # Null
    /\ Val(funCall).fn = "generateTechStack"
    /\ CalledLanguages = << [name |-> "JavaScript", bytes |-> 200],
                            [name |-> "TypeScript", bytes |-> 800] >>
    /\ TechStackLines = << "## Technology Stack", "", "### Programming Languages",
                           "- **TypeScript** (80.0%)", "- **JavaScript** (20.0%)" >>

\* the size text as C13 states it: bytes / 1024^i with i the floor of the
\* logarithm of bytes to the base 1024, rounded to the hundredths and written
\* with two decimal places, then the unit
SizeWithTwoDecimals(bytes) ==
    IF bytes = 0 THEN "0 Bytes"
    ELSE LET i     == FloorLog1024(bytes)
             h     == (2 * 100 * bytes + Pow1024(i)) \div (2 * Pow1024(i))
         IN  IntToString(h \div 100) \o "." \o IntToString((h % 100) \div 10)
                 \o IntToString(h % 10) \o " " \o SizeUnit(i)

\* C13: the Repository Size of the About section is size * 1024 bytes
\* divided by 1024^i, i the floor of the logarithm to the base 1024, rounded
\* to two decimals and rendered with two decimal places and the unit
\* ("0 Bytes" for size 0); for the size 1536 it is exactly "1.50 MB".
C13_SizeWithTwoDecimals ==
    Shown /\ repository # Null =>
        /\ LineCount(generatedReadme, LineEnds(generatedReadme),
                     "**Repository Size:** "
                         \o SizeWithTwoDecimals(Val(repository).size * 1024)) = 1
        /\ Val(repository).size = 1536 =>
               Includes(generatedReadme, "**Repository Size:** 1.50 MB\n")

\* the listing buildFileTree was called with, and the lines of what it
\* returned (no line for the empty text)
CalledFiles == Val(funCall).files
TreeLinesReturned == IF Val(funResult) = "" THEN <<>> ELSE SplitLines(Val(funResult))

\* the line of entry e at position i of n: the glyph of the position, the
\* icon of the kind, the name
TreeLineOf(e, i, n) ==
    (IF i = n THEN "+-- " ELSE "|-- ")
        \o (IF e.type = "dir" THEN "[dir] " ELSE "[file] ") \o e.name

\* the characters of the names in the order of their code units
CodeUnitOrder == "-.0123456789ABCDEFGHIJKLMNOPQRSTUVWXYZ_abcdefghijklmnopqrstuvwxyz"

RECURSIVE OrdinalCompareFrom(_, _, _)
OrdinalCompareFrom(a, b, i) ==
    IF i > Len(a) /\ i > Len(b) THEN 0
    ELSE IF i > Len(a) THEN -1
    ELSE IF i > Len(b) THEN 1
    ELSE LET x == IndexFrom(CodeUnitOrder, SubSeq(a, i, i), 1)
             y == IndexFrom(CodeUnitOrder, SubSeq(b, i, i), 1)
         IN  IF x < y THEN -1 ELSE IF x > y THEN 1 ELSE OrdinalCompareFrom(a, b, i + 1)

\* the case-sensitive ordinal comparison of two names
OrdinalCompare(a, b) == OrdinalCompareFrom(a, b, 1)

\* the returned tree has one line per entry of the called listing, the
\* directories before the files, each kind ascending by Compare, the last
\* line with the terminal glyph and the others with the branch glyph
TreeOrderedBy(Compare(_, _)) ==
    LET l     == CalledFiles
        lines == TreeLinesReturned
        n     == Len(l)
        Entry(i) == CHOOSE k \in DOMAIN l : lines[i] = TreeLineOf(l[k], i, n)
    IN  /\ Len(lines) = n
        /\ \A i \in 1..n : \E k \in DOMAIN l : lines[i] = TreeLineOf(l[k], i, n)
        /\ \A i, j \in 1..n : i # j => Entry(i) # Entry(j)
        /\ \A i, j \in 1..n : i < j =>
               /\ ~(l[Entry(i)].type = "file" /\ l[Entry(j)].type = "dir")
               /\ l[Entry(i)].type = l[Entry(j)].type
                      => Compare(l[Entry(i)].name, l[Entry(j)].name) < 0

TreeReturned == funCall # Null /\ funResult # Null /\ Val(funCall).fn = "buildFileTree"

ReadmeReturned == funCall # Null /\ funResult # Null /\ Val(funCall).fn = "generateReadme"

\* the first lines of the sections, in the order C15 gives: the title, the
\* first badge, then the headings; api and scripts tell whether the two
\* optional sections are there
SectionStarts(api, scripts) ==
    << "# ", "[![Stars]", "## About", "## Table of Contents", "## Features",
       "## Technology Stack", "## Installation", "## Usage", "## Project Structure" >>
    \o PushIf(api, "## API Documentation")
    \o PushIf(scripts, "## Available Scripts")
    \o << "## Contributing", "## License", "## Contact" >>

RECURSIVE Ascending(_)
\* the members of a set of numbers in ascending order
Ascending(S) ==
    IF S = {} THEN <<>>
    ELSE LET m == CHOOSE x \in S : \A y \in S : x <= y
         IN  <<m>> \o Ascending(S \ {m})

\* the line ends of s after which a section starts: the first badge line or
\* a second-level heading
StartLines(s) ==
    { k \in LineEnds(s) :
        \/ SubSeq(s, k + 1, k + 3) = "## "
        \/ SubSeq(s, k + 1, k + 9) = "[![Stars]" }

\* s begins with the first of starts, its later section starts are the
\* others of starts, in that order, and each follows an empty line
SectionsInOrder(s, starts) ==
    \E at \in {Ascending(StartLines(s))} :
        /\ StartsWithAt(s, starts[1], 1)
        /\ Len(at) = Len(starts) - 1
        /\ \A k \in DOMAIN at :
               /\ StartsWithAt(s, starts[k + 1], at[k] + 1)
               /\ SubSeq(s, at[k] - 1, at[k] - 1) = "\n"

\* C15: the document is its sections joined by a double newline in the
\* order Header, Badges, About, Table of Contents, Features, Technology
\* Stack, Installation, Usage, Project Structure, API Documentation (if
\* included), Scripts (if included), Contributing, License, Contact,
\* whatever the input.
C15_SectionsInFixedOrder ==
    ReadmeReturned =>
        \E api, scripts \in BOOLEAN :
            SectionsInOrder(Val(funResult), SectionStarts(api, scripts))

C15_Witness ==
    /\ ReadmeReturned
    /\ SectionsInOrder(Val(funResult), SectionStarts(TRUE, TRUE))
    /\ Val(funCall).files = << RootEntry("package.json", "file"), RootEntry("api", "dir") >>

\* how many lines of s, its first and its last aside, are the text line
Lines(s, line) == LineCount(s, LineEnds(s), line)

ApiAnchor == "- [API Documentation](#-api-documentation)"
ScriptsAnchor == "- [Available Scripts](#-available-scripts)"

\* C16: the Table of Contents has the API Documentation anchor exactly when
\* the document has the API Documentation section, and the Available Scripts
\* anchor exactly when it has the Scripts section, which is exactly when the
\* listing has package.json in any letter case.
C16_AnchorsMatchSections ==
    ReadmeReturned =>
        \E doc \in {Val(funResult)} : \E ends \in {LineEnds(doc)} :
            /\ LineCount(doc, ends, ApiAnchor) = LineCount(doc, ends, "## API Documentation")
            /\ LineCount(doc, ends, ScriptsAnchor) = LineCount(doc, ends, "## Available Scripts")
            /\ LineCount(doc, ends, ApiAnchor) \in {0, 1}
            /\ LineCount(doc, ends, ScriptsAnchor)
                   = (IF \E i \in DOMAIN Val(funCall).files :
                             ToLowerCase(Val(funCall).files[i].name) = "package.json"
                      THEN 1 ELSE 0)

C16_Witness ==
    /\ ReadmeReturned
    /\ Val(funCall).files = << RootEntry("Package.JSON", "file") >>
    /\ Val(funCall).techStack.frameworks = <<"Django">>
    /\ Lines(Val(funResult), ApiAnchor) = 1
    /\ Lines(Val(funResult), "## API Documentation") = 1
    /\ Lines(Val(funResult), ScriptsAnchor) = 1
    /\ Lines(Val(funResult), "## Available Scripts") = 1

\* C17: generateReadme changes none of its arguments: once it has returned,
\* the repository, the profile and the listing App passed to it and stored as
\* its state are what analyzeRepository resolved with, the entries of the
\* listing in the order of the API's answer.
C17_ArgumentsUnchanged ==
    Shown /\ fetched # Null =>
        /\ repository = Some(Val(fetched).repo)
        /\ techStack # Null
        /\ files = Val(fetched).files

ResolveReturned == funCall # Null /\ funResult # Null /\ Val(funCall).fn = "resolve"

\* C19: the placeholder replacement leaves no REPO_URL and no REPO_NAME of
\* the generated document in place: each occurrence, not only the first of
\* each, is replaced, REPO_URL by the clone URL and REPO_NAME by the name of
\* the repository.  The Node, Python, Java and generic installation
\* templates each hold both tokens, the usage templates hold none, so that
\* a description quoting REPO_URL makes a document with several of them.
C19_EveryOccurrenceReplaced ==
    ResolveReturned =>
        \E doc \in {Val(funCall).readme} : \E repo \in {Val(funCall).repo} :
        \E out \in {Val(funResult)} :
            /\ Occurrences(doc, "REPO_URL") # {} /\ ~Includes(repo.clone_url, "REPO_URL")
                   /\ ~Includes(repo.name, "REPO_URL")
                   => ~Includes(out, "REPO_URL")
            /\ Occurrences(doc, "REPO_NAME") # {} /\ ~Includes(repo.name, "REPO_NAME")
                   /\ ~Includes(repo.clone_url, "REPO_NAME")
                   => ~Includes(out, "REPO_NAME")
            /\ Len(out) = Len(doc)
                   + Cardinality(Occurrences(doc, "REPO_URL")) * (Len(repo.clone_url) - 8)
                   + Cardinality(Occurrences(ReplaceAll(doc, "REPO_URL", repo.clone_url),
                                             "REPO_NAME")) * (Len(repo.name) - 9)

C19_Witness ==
    /\ ResolveReturned
    /\ Val(funCall).repo = RepoPlain
    /\ Val(funCall).readme = "git clone REPO_URL\ncd REPO_NAME\nopen REPO_URL\nls REPO_NAME"
    /\ Val(funResult) = "git clone " \o RepoPlain.clone_url \o "\ncd my-app\nopen "
                            \o RepoPlain.clone_url \o "\nls my-app"

\* the lines that tell the three usage templates apart
UsageNodeMarker == "### Production Build"
UsagePythonMarker == "### Running the Application"
UsageGenericMarker == "### Basic Usage"

\* C20: the Usage section is the package-manifest template exactly when the
\* Installation section is, the Python template exactly when the
\* Installation section is, and the generic template otherwise.
C20_UsageFollowsInstallation ==
    ReadmeReturned =>
        \E doc \in {Val(funResult)} : \E ends \in {LineEnds(doc)} :
            LET Has(line) == LineCount(doc, ends, line) = 1
            IN  /\ Has(UsageNodeMarker) <=> Has(NodeMarker)
                /\ Has(UsagePythonMarker) <=> Has(PythonMarker)
                /\ Has(UsageGenericMarker) <=> ~(Has(NodeMarker) \/ Has(PythonMarker))

\* what the pass f returns when it runs alone and is given the answers f
\* was given: detectTechnologies from its first statement to its last, then
\* generateReadme and the replacement
AloneResult(f) ==
    LET names == LowerNames(f.files)
        d1 == IF ArrIncludes(names, "package.json")
              THEN PackageJsonStage(NoLabels, getFileContent(Val(f.package)))
              ELSE NoLabels
        d2 == IF HasPythonManifest(names)
              THEN PythonStage(PythonPip(d1),
                               IF ArrIncludes(names, "requirements.txt")
                               THEN getFileContent(Val(f.requirements))
                               ELSE Return(""))
              ELSE d1
    IN  PassResult(Val(f.repo), TechStackOf(f.languages, ListingRules(d2, f.files)), f.files)

\* C18: however two analysis passes for different repositories interleave at
\* their awaits, each returns the profile and the document it returns when
\* it runs alone with the same answers.
C18_PassesDoNotInteract ==
    \A p \in DOMAIN passes :
        passes[p].pc = "done" => passes[p].result = Some(AloneResult(passes[p]))

\* both passes were in detectTechnologies at once, the second to start being
\* the first to return, and their profiles differ
C18_Witness ==
    /\ DOMAIN passes = PassIds
    /\ passes[1].pc = "await_requirements"
    /\ passes[1].package = Some(ContentOk(PkgReactNextBase64))
    /\ passes[2].pc = "done"
    /\ passes[2].package = Some(HttpError("Not Found"))
    /\ passes[2].requirements = Some(ContentOk(ReqDjangoBase64))
    /\ Val(passes[2].result).profile.frameworks = <<"Django">>
    /\ ArrIncludes(LabelsOf(passes, 1).frameworks, "React")

ApiFrameworkNames == {"Express", "Fastify", "NestJS", "Django", "Flask", "FastAPI"}
ApiFileWords == {"api", "routes", "controllers", "endpoints"}

\* the condition of C21 on a profile and a listing
ApiDocsExpected(profile, listing) ==
    \/ \E i \in DOMAIN profile.frameworks : \E n \in ApiFrameworkNames :
           Includes(profile.frameworks[i], n)
    \/ \E i \in DOMAIN listing : \E w \in ApiFileWords :
           \/ Includes(ToLowerCase(listing[i].name), w)
           \/ Includes(ToLowerCase(listing[i].path), w)

DetectReturned ==
    funCall # Null /\ funResult # Null /\ Val(funCall).fn = "detectTechnologies"

\* the listing with the names and paths of its entries in lower case
LowerCased(listing) ==
    [i \in DOMAIN listing |->
        [listing[i] EXCEPT !.name = ToLowerCase(@), !.path = ToLowerCase(@)]]

\* C22: the rules of detectTechnologies that read the listing match on
\* lower-cased names and paths: a listing yields the profile that the same
\* listing in lower case yields, and GitHub Actions is detected whenever the
\* lower-cased path of an entry contains .github/workflows.
C22_ListingRulesIgnoreCase ==
    DetectReturned =>
        LET c == Val(funCall)
        IN  /\ Val(funResult)
                 = TechStackOf(c.languages, ListingRules(NoLabels, LowerCased(c.files)))
            /\ (\E i \in DOMAIN c.files :
                    Includes(ToLowerCase(c.files[i].path), ".github/workflows"))
                 => ArrIncludes(Val(funResult).deployment, "GitHub Actions")

\* C23: a section with nothing to say is the empty text and is left out of
\* the document: for a profile whose language map and four lists are all
\* empty, generateTechStack returns the empty text and the document has no
\* Technology Stack section.
C23_EmptyStackOmitted ==
    /\ funCall # Null /\ funResult # Null /\ Val(funCall).fn = "generateTechStack"
           /\ Val(funCall).techStack = EmptyProfile
           => Val(funResult) = ""
    /\ ReadmeReturned /\ Val(funCall).techStack = EmptyProfile
           => Lines(Val(funResult), "## Technology Stack") = 0

FormatReturned == funCall # Null /\ funResult # Null /\ Val(funCall).fn = "formatBytes"

\* C27: for every repository size in KB, formatBytes(size * 1024) ends with
\* one of the units Bytes, KB, MB, GB: the unit index is within the table of
\* four units, for sizes of 2^30 KB and above too.
C27_UnitWithinTable ==
    FormatReturned =>
        \E unit \in {" Bytes", " KB", " MB", " GB"} : EndsWith(Val(funResult), unit)

\* the App state as it is when no analysis is in flight: a repository, a
\* profile and a document together or none of them, an error only with none
AppConsistent ==
    /\ (repository # Null) <=> (techStack # Null)
    /\ (techStack # Null) <=> (generatedReadme # "")
    /\ error # Null => repository = Null /\ techStack = Null /\ generatedReadme = ""

\* C25: after any sequence of handleAnalyze and handleReset, whenever no
\* analysis is in flight, repository, techStack and generatedReadme are set
\* together or cleared together, and error is set only when all three are
\* cleared; handleReset, the only operation offered once a document is
\* shown, returns repository, techStack, files, generatedReadme and error
\* to their initial values.
C25_AppStateConsistent ==
    [][ /\ pc' = "idle" => AppConsistent'
        /\ Shown /\ pc = "idle" =>
               /\ repository' = Null /\ techStack' = Null /\ files' = <<>>
               /\ generatedReadme' = "" /\ error' = Null ]_vars

C25_Witness ==
    /\ pc = "idle" /\ ~isAnalyzing
    /\ repository # Null /\ techStack # Null /\ generatedReadme # "" /\ error = Null
    /\ Len(files) = MaxFiles

\* C26: while handleAnalyze runs isAnalyzing is true and the error of an
\* earlier attempt is gone, and, the awaited fetches settling, isAnalyzing
\* is false again in the end, on the path of success and on the paths of
\* failure alike.
C26_AnalyzingEndsAndErrorCleared ==
    /\ [](pc # "idle" => isAnalyzing /\ error = Null)
    /\ [](pc = "idle" => ~isAnalyzing)
    /\ (isAnalyzing ~> ~isAnalyzing)

C26_Witness ==
    /\ isAnalyzing
    /\ pc = "await_requirements"
    /\ error = Null
    /\ Len(contentCalls) = 1


\* C24: whenever the RepoAnalyzer form is rendered and its url passes
\* validateGitHubUrl, isValidUrl is true: the validation message is not
\* shown, and the submit button is enabled unless an analysis is running
C24_ValidUrlShownValid ==
    FormRendered /\ validateGitHubUrl(form.url) =>
        /\ form.isValidUrl
        /\ ~ValidationErrorShown
        /\ (~isAnalyzing => SubmitEnabled)

=============================================================================
